---- MODULE Spec2Model ----
(***************************************************************************)
(* The AML ("trait:" tag) renderer of src/ide/test_aml_scenarios.py and    *)
(* src/ide/test_aml.py: parse_attrs, render_widget and the render_aml      *)
(* composer loop with its depth-counting span matcher.                     *)
(*                                                                         *)
(* Text is a sequence of one-character strings and offsets are 0-based, as *)
(* in the Python source; a character outside ASCII is written as its code  *)
(* point.  Rendered output is a sequence of pieces: a piece *)
(* is either markup written by the renderer (the literal parts of an       *)
(* f-string) or text that an f-string interpolates.                        *)
(***************************************************************************)
EXTENDS Integers, Sequences, FiniteSets, TLC

\* ------------------------------------------------------------------------
\* Characters
\* ------------------------------------------------------------------------
LowerLetters == <<"a", "b", "c", "d", "e", "f", "g", "h", "i", "j", "k", "l", "m", "n", "o", "p", "q", "r", "s", "t", "u", "v", "w", "x", "y", "z">>
UpperLetters == <<"A", "B", "C", "D", "E", "F", "G", "H", "I", "J", "K", "L", "M", "N", "O", "P", "Q", "R", "S", "T", "U", "V", "W", "X", "Y", "Z">>
DigitChars == <<"0", "1", "2", "3", "4", "5", "6", "7", "8", "9">>

LowerSet == {LowerLetters[i] : i \in 1..26}
UpperSet == {UpperLetters[i] : i \in 1..26}
DigitSet == {DigitChars[i] : i \in 1..10}
Whitespace == {" ", "\n", "\t", "\r"}
\* LATIN CAPITAL LETTER I WITH DOT ABOVE, the one character whose str.lower()
\* is two characters long: 'i' and COMBINING DOT ABOVE
dotted_I == "U+0130"
dot_above == "U+0307"

\* [a-z] under re.IGNORECASE
IsLetter(c) == c \in LowerSet \/ c \in UpperSet \/ c = dotted_I
\* [\w-]
IsWordChar(c) == IsLetter(c) \/ c \in DigitSet \/ c = "_" \/ c = "-"

UpperToLower == [c \in UpperSet |-> LowerLetters[CHOOSE i \in 1..26 : UpperLetters[i] = c]]
lowerc(c) == IF c \in UpperSet THEN UpperToLower[c] ELSE c
\* the letter of a pattern that a character matches under re.IGNORECASE
ignorecase(c) == IF c = dotted_I THEN "i" ELSE lowerc(c)
\* str.lower() of one character
lower_char(c) == IF c = dotted_I THEN <<"i", dot_above>> ELSE <<lowerc(c)>>

Min(S) == CHOOSE x \in S : \A y \in S : x <= y
Max(S) == CHOOSE x \in S : \A y \in S : x >= y

\* ------------------------------------------------------------------------
\* Python string primitives (0-based offsets)
\* ------------------------------------------------------------------------
\* s[a:b]; an end past the end of s is the end of s
Slice(s, a, b) == SubSeq(s, a + 1, IF b > Len(s) THEN Len(s) ELSE b)
\* s[a:]
SliceFrom(s, a) == SubSeq(s, a + 1, Len(s))
\* s.startswith(sub, i)
StartsAt(s, sub, i) == i + Len(sub) <= Len(s) /\ SubSeq(s, i + 1, i + Len(sub)) = sub
\* sub stands at offset i of s, letter case ignored
LowerStartsAt(s, sub, i) ==
    /\ i + Len(sub) <= Len(s)
    /\ \A j \in 1..Len(sub) : lowerc(s[i + j]) = sub[j]
\* a literal of a pattern matches at offset i of s under re.IGNORECASE
IgnoreCaseAt(s, sub, i) ==
    /\ i + Len(sub) <= Len(s)
    /\ \A j \in 1..Len(sub) : ignorecase(s[i + j]) = sub[j]
\* s.find(sub, start): the least offset >= start, or -1
Find(s, sub, start) ==
    LET hits == {i \in start..(Len(s) - Len(sub)) : StartsAt(s, sub, i)}
    IN  IF hits = {} THEN -1 ELSE Min(hits)
\* the least offset >= start where sub stands in s, letter case ignored, or -1
CaseFind(s, sub, start) ==
    LET hits == {i \in start..(Len(s) - Len(sub)) : LowerStartsAt(s, sub, i)}
    IN  IF hits = {} THEN -1 ELSE Min(hits)
\* s.endswith(c) for a single character
EndsWithChar(s, c) == Len(s) > 0 /\ s[Len(s)] = c
\* s.strip()
strip(s) ==
    LET keep == {i \in 1..Len(s) : s[i] \notin Whitespace}
    IN  IF keep = {} THEN <<>> ELSE SubSeq(s, Min(keep), Max(keep))
\* s.rstrip()
rstrip(s) ==
    LET keep == {i \in 1..Len(s) : s[i] \notin Whitespace}
    IN  IF keep = {} THEN <<>> ELSE SubSeq(s, 1, Max(keep))

RECURSIVE Flatten(_)
\* ''.join(parts)
Flatten(parts) == IF parts = <<>> THEN <<>> ELSE Head(parts) \o Flatten(Tail(parts))

\* str.lower(): every character replaced by its lower-case form
lower(s) ==
    IF \A i \in 1..Len(s) : s[i] # dotted_I THEN [i \in 1..Len(s) |-> lowerc(s[i])]
    ELSE Flatten([i \in 1..Len(s) |-> lower_char(s[i])])
\* s.lower().find(sub, start): an offset of the lower-cased string
LowerFind(s, sub, start) == Find(lower(s), sub, start)

\* ------------------------------------------------------------------------
\* html.escape (quote=True)
\* ------------------------------------------------------------------------
amp_entity == <<"&", "a", "m", "p", ";">>
lt_entity == <<"&", "l", "t", ";">>
gt_entity == <<"&", "g", "t", ";">>
quot_entity == <<"&", "q", "u", "o", "t", ";">>
apos_entity == <<"&", "#", "x", "2", "7", ";">>

escape_char(c) ==
    CASE c = "&" -> amp_entity
      [] c = "<" -> lt_entity
      [] c = ">" -> gt_entity
      [] c = "\"" -> quot_entity
      [] c = "'" -> apos_entity
      [] OTHER -> <<c>>
\* escaping applied to its own result
EscapeTwice(s) ==
    Flatten([i \in 1..Len(s) |->
        Flatten([j \in 1..Len(escape_char(s[i])) |-> escape_char(escape_char(s[i])[j])])])
\* html.escape(s): every character replaced by its image
escape(s) == Flatten([i \in 1..Len(s) |-> escape_char(s[i])])

\* ------------------------------------------------------------------------
\* Output pieces
\* ------------------------------------------------------------------------
\* markup written by the renderer (a literal part of an f-string)
M(str) == [k |-> "m", s |-> <<str>>]
\* text interpolated into an f-string
T(chars) == [k |-> "t", s |-> chars]

\* ------------------------------------------------------------------------
\* Literals of the source
\* ------------------------------------------------------------------------
\* tag names, as render_aml lower-cases them
t_button == <<"t", "r", "a", "i", "t", ":", "b", "u", "t", "t", "o", "n">>
t_code == <<"t", "r", "a", "i", "t", ":", "c", "o", "d", "e">>
t_coderef == <<"t", "r", "a", "i", "t", ":", "c", "o", "d", "e", "r", "e", "f">>
t_diff == <<"t", "r", "a", "i", "t", ":", "d", "i", "f", "f">>
t_file == <<"t", "r", "a", "i", "t", ":", "f", "i", "l", "e">>
t_list == <<"t", "r", "a", "i", "t", ":", "l", "i", "s", "t">>
t_todo == <<"t", "r", "a", "i", "t", ":", "t", "o", "d", "o">>
t_table == <<"t", "r", "a", "i", "t", ":", "t", "a", "b", "l", "e">>
t_badge == <<"t", "r", "a", "i", "t", ":", "b", "a", "d", "g", "e">>
t_tag == <<"t", "r", "a", "i", "t", ":", "t", "a", "g">>
t_progress == <<"t", "r", "a", "i", "t", ":", "p", "r", "o", "g", "r", "e", "s", "s">>
t_metric == <<"t", "r", "a", "i", "t", ":", "m", "e", "t", "r", "i", "c">>
t_chart == <<"t", "r", "a", "i", "t", ":", "c", "h", "a", "r", "t">>
t_barchart == <<"t", "r", "a", "i", "t", ":", "b", "a", "r", "c", "h", "a", "r", "t">>
t_terminal == <<"t", "r", "a", "i", "t", ":", "t", "e", "r", "m", "i", "n", "a", "l">>
t_info == <<"t", "r", "a", "i", "t", ":", "i", "n", "f", "o">>
t_warning == <<"t", "r", "a", "i", "t", ":", "w", "a", "r", "n", "i", "n", "g">>
t_error == <<"t", "r", "a", "i", "t", ":", "e", "r", "r", "o", "r">>
t_success == <<"t", "r", "a", "i", "t", ":", "s", "u", "c", "c", "e", "s", "s">>
t_tip == <<"t", "r", "a", "i", "t", ":", "t", "i", "p">>
t_card == <<"t", "r", "a", "i", "t", ":", "c", "a", "r", "d">>
t_grid == <<"t", "r", "a", "i", "t", ":", "g", "r", "i", "d">>
t_filetree == <<"t", "r", "a", "i", "t", ":", "f", "i", "l", "e", "t", "r", "e", "e">>
t_folder == <<"t", "r", "a", "i", "t", ":", "f", "o", "l", "d", "e", "r">>
t_search == <<"t", "r", "a", "i", "t", ":", "s", "e", "a", "r", "c", "h">>
t_breadcrumb == <<"t", "r", "a", "i", "t", ":", "b", "r", "e", "a", "d", "c", "r", "u", "m", "b">>
t_timestamp == <<"t", "r", "a", "i", "t", ":", "t", "i", "m", "e", "s", "t", "a", "m", "p">>
t_link == <<"t", "r", "a", "i", "t", ":", "l", "i", "n", "k">>
t_divider == <<"t", "r", "a", "i", "t", ":", "d", "i", "v", "i", "d", "e", "r">>
t_spacer == <<"t", "r", "a", "i", "t", ":", "s", "p", "a", "c", "e", "r">>
t_br == <<"t", "r", "a", "i", "t", ":", "b", "r">>
t_item == <<"t", "r", "a", "i", "t", ":", "i", "t", "e", "m">>
\* attribute names
a_file == <<"f", "i", "l", "e">>
a_language == <<"l", "a", "n", "g", "u", "a", "g", "e">>
a_text == <<"t", "e", "x", "t">>
a_path == <<"p", "a", "t", "h">>
a_name == <<"n", "a", "m", "e">>
a_line == <<"l", "i", "n", "e">>
a_ordered == <<"o", "r", "d", "e", "r", "e", "d">>
a_title == <<"t", "i", "t", "l", "e">>
a_variant == <<"v", "a", "r", "i", "a", "n", "t">>
a_value == <<"v", "a", "l", "u", "e">>
a_max == <<"m", "a", "x">>
a_label == <<"l", "a", "b", "e", "l">>
a_change == <<"c", "h", "a", "n", "g", "e">>
a_cols == <<"c", "o", "l", "s">>
a_root == <<"r", "o", "o", "t">>
a_query == <<"q", "u", "e", "r", "y">>
a_results == <<"r", "e", "s", "u", "l", "t", "s">>
a_size == <<"s", "i", "z", "e">>
\* string literals of the source
s_true == <<"t", "r", "u", "e">>
s_default == <<"d", "e", "f", "a", "u", "l", "t">>
s_Terminal == <<"T", "e", "r", "m", "i", "n", "a", "l">>
s_3 == <<"3">>
s_Files == <<"F", "i", "l", "e", "s">>
s_folder == <<"f", "o", "l", "d", "e", "r">>
s_12px == <<"1", "2", "p", "x">>
s_slash == <<"/">>
s_plus == <<"+">>
s_minus == <<"-">>
k_tag_open == <<"<", "t", "r", "a", "i", "t", ":">>
k_item_open == <<"<", "t", "r", "a", "i", "t", ":", "i", "t", "e", "m">>
k_item_close == <<"<", "/", "t", "r", "a", "i", "t", ":", "i", "t", "e", "m", ">">>
k_row_open == <<"<", "t", "r", "a", "i", "t", ":", "r", "o", "w">>
k_row_close == <<"<", "/", "t", "r", "a", "i", "t", ":", "r", "o", "w", ">">>
k_cell_open == <<"<", "t", "r", "a", "i", "t", ":", "c", "e", "l", "l">>
k_cell_close == <<"<", "/", "t", "r", "a", "i", "t", ":", "c", "e", "l", "l", ">">>
k_data_open == <<"<", "t", "r", "a", "i", "t", ":", "d", "a", "t", "a">>
k_command_open == <<"<", "t", "r", "a", "i", "t", ":", "c", "o", "m", "m", "a", "n", "d">>
k_command_close == <<"<", "/", "t", "r", "a", "i", "t", ":", "c", "o", "m", "m", "a", "n", "d", ">">>
k_output_open == <<"<", "t", "r", "a", "i", "t", ":", "o", "u", "t", "p", "u", "t">>
k_output_close == <<"<", "/", "t", "r", "a", "i", "t", ":", "o", "u", "t", "p", "u", "t", ">">>
k_tagw_open == <<"<", "t", "r", "a", "i", "t", ":", "t", "a", "g">>
k_tagw_close == <<"<", "/", "t", "r", "a", "i", "t", ":", "t", "a", "g", ">">>
k_done_eq == <<"d", "o", "n", "e", "=", "\"">>
k_header_true == <<"h", "e", "a", "d", "e", "r", "=", "\"", "t", "r", "u", "e", "\"">>
k_label_eq == <<"l", "a", "b", "e", "l", "=", "\"">>
k_value_eq == <<"v", "a", "l", "u", "e", "=", "\"">>
k_type_eq == <<"t", "y", "p", "e", "=", "\"">>
k_selfclose == <<"/", ">">>

\* ------------------------------------------------------------------------
\* parse_attrs: re.finditer(r'([\w-]+)=["\']([^"\']*)["\']', attr_str)
\* ------------------------------------------------------------------------
IsQuote(c) == c = "\"" \/ c = "'"

\* end (exclusive) of the maximal [\w-] run that starts at offset i
WordRunEnd(s, i) ==
    Min({e \in i..Len(s) : e = Len(s) \/ ~IsWordChar(s[e + 1])})

\* offset of the quote character that ends the value opened at offset v, or -1
ValueEnd(s, v) ==
    LET qs == {j \in v..(Len(s) - 1) : IsQuote(s[j + 1])}
    IN  IF qs = {} THEN -1 ELSE Min(qs)

\* the pattern matches with its first character at offset i
AttrMatchAt(s, i) ==
    /\ i < Len(s)
    /\ IsWordChar(s[i + 1])
    /\ LET e == WordRunEnd(s, i)
       IN  /\ e + 1 < Len(s)
           /\ s[e + 1] = "="
           /\ IsQuote(s[e + 2])
           /\ ValueEnd(s, e + 2) # -1

RECURSIVE AttrScan(_, _, _)
\* the finditer loop: attrs[match.group(1)] = match.group(2), later pairs overwrite
AttrScan(s, from, attrs) ==
    LET starts == {i \in from..(Len(s) - 1) : AttrMatchAt(s, i)}
    IN  IF starts = {} THEN attrs
        ELSE LET i == Min(starts)
                 e == WordRunEnd(s, i)
                 q == ValueEnd(s, e + 2)
                 name == Slice(s, i, e)
                 val == Slice(s, e + 2, q)
                 others == [n \in (DOMAIN attrs) \ {name} |-> attrs[n]]
             IN  AttrScan(s, q + 1, (name :> val) @@ others)

\* a parser that gives up at the first text that is no pair
ParseUntilJunk(attr_str) ==
    IF AttrMatchAt(attr_str, 1) THEN AttrScan(attr_str, 0, <<>>) ELSE <<>>

parse_attrs(attr_str) == AttrScan(attr_str, 0, <<>>)

\* attrs.get(name, default)
Get(attrs, name, default) == IF name \in DOMAIN attrs THEN attrs[name] ELSE default

\* ------------------------------------------------------------------------
\* Tag scanner: re.search(r'<(trait:[a-z]+)([^>]*)>', content[pos:], re.IGNORECASE)
\* ------------------------------------------------------------------------
\* a pattern that takes any character after the prefix as the name
TagMatchAnyName(s, i) ==
    /\ IgnoreCaseAt(s, k_tag_open, i)
    /\ i + Len(k_tag_open) < Len(s)
    /\ \E j \in (i + Len(k_tag_open) + 1)..(Len(s) - 1) : s[j + 1] = ">"

\* the pattern matches with its '<' at offset i
TagMatchAt(s, i) ==
    /\ IgnoreCaseAt(s, k_tag_open, i)
    /\ i + Len(k_tag_open) < Len(s)
    /\ IsLetter(s[i + Len(k_tag_open) + 1])
    /\ \E j \in (i + Len(k_tag_open) + 1)..(Len(s) - 1) : s[j + 1] = ">"

\* end (exclusive) of group(1): the greedy [a-z]+ run
NameEnd(s, i) ==
    Min({e \in (i + Len(k_tag_open) + 1)..Len(s) : e = Len(s) \/ ~IsLetter(s[e + 1])})

\* offset of the '>' that ends the match: [^>]* cannot cross one
GtAt(s, from) == Min({j \in from..(Len(s) - 1) : s[j + 1] = ">"})

\* the match object: found, match.start() + pos, group(1).lower(), group(2), len(group(0))
TagSearch(s, pos) ==
    LET starts == {i \in pos..(Len(s) - 1) : TagMatchAt(s, i)}
    IN  IF starts = {} THEN [found |-> FALSE, tag_start |-> -1, tag_name |-> <<>>, attrs_str |-> <<>>, mlen |-> 0]
        ELSE LET i == Min(starts)
                 e == NameEnd(s, i)
                 g == GtAt(s, e)
             IN  [found |-> TRUE, tag_start |-> i, tag_name |-> lower(Slice(s, i + 1, e)),
                  attrs_str |-> Slice(s, e, g), mlen |-> g + 1 - i]

\* ------------------------------------------------------------------------
\* The child patterns of the leaf widgets (re.findall)
\* ------------------------------------------------------------------------
\* end (exclusive) of the whitespace run that starts at offset i
WsRunEnd(s, i) == Min({e \in i..Len(s) : e = Len(s) \/ s[e + 1] \notin Whitespace})

\* \s+ followed by the literal key, from offset i: the offset after the key, or -1
AfterWs(s, i, e, key) == IF e > i /\ StartsAt(s, key, e) THEN e + Len(key) ELSE -1
AfterWsKey(s, i, key) == AfterWs(s, i, WsRunEnd(s, i), key)

NoMatchAt == [ok |-> FALSE]

\* ([^"]*)" from offset k, the closing quote at offset q (-1: there is none)
CapTo(s, k, q) == IF q = -1 THEN NoMatchAt ELSE [ok |-> TRUE, end |-> q + 1, cap |-> Slice(s, k, q)]
\* the key ended at offset k (-1: it did not match)
KeyTo(s, k, cap) ==
    IF k = -1 THEN NoMatchAt
    ELSE IF ~cap THEN [ok |-> TRUE, end |-> k, cap |-> <<>>]
    ELSE CapTo(s, k, Find(s, <<"\"">>, k))

\* The head of a child pattern at offset i: the literal prefix, then (when
\* key is not empty) \s+ and the literal key, then (when cap) ([^"]*)" .
\* ok, the offset after the head, and the captured group.
HeadAt(s, i, prefix, key, cap) ==
    IF ~StartsAt(s, prefix, i) THEN NoMatchAt
    ELSE IF key = <<>> THEN [ok |-> TRUE, end |-> i + Len(prefix), cap |-> <<>>]
    ELSE KeyTo(s, AfterWsKey(s, i + Len(prefix), key), cap)

\* (.*?)closeTag from offset g + 1, the closing tag at offset c (-1: there is none);
\* without dotall '.' stops at a newline
ContentTo(s, i, h, g, c, closeTag, dotall) ==
    IF c = -1 THEN NoMatchAt
    ELSE IF ~dotall /\ Find(Slice(s, g + 1, c), <<"\n">>, 0) # -1 THEN NoMatchAt
    ELSE [ok |-> TRUE, start |-> i, cap |-> h.cap, inner |-> Slice(s, g + 1, c), end |-> c + Len(closeTag)]
\* [^>]*> from the end of the head h, the '>' at offset g (-1: there is none)
TagEndTo(s, i, h, g, closeTag, dotall) ==
    IF g = -1 THEN NoMatchAt
    ELSE ContentTo(s, i, h, g, Find(s, closeTag, g + 1), closeTag, dotall)
HeadTo(s, i, h, closeTag, dotall) ==
    IF ~h.ok THEN NoMatchAt
    ELSE TagEndTo(s, i, h, Find(s, <<">">>, h.end), closeTag, dotall)

\* head [^>]*>(.*?)closeTag at offset i
ChildAt(s, i, prefix, key, cap, closeTag, dotall) ==
    HeadTo(s, i, HeadAt(s, i, prefix, key, cap), closeTag, dotall)

\* the offsets at or after from where the pattern matches
ChildStarts(s, from, prefix, key, cap, closeTag, dotall) ==
    {i \in from..(Len(s) - 1) : StartsAt(s, prefix, i) /\ ChildAt(s, i, prefix, key, cap, closeTag, dotall).ok}

RECURSIVE FindAllChildren(_, _, _, _, _, _, _)
RECURSIVE ChildrenFrom(_, _, _, _, _, _, _)
\* the match m and the matches after it
ChildrenFrom(s, m, prefix, key, cap, closeTag, dotall) ==
    <<m>> \o FindAllChildren(s, m.end, prefix, key, cap, closeTag, dotall)
ChildrenAt(s, starts, prefix, key, cap, closeTag, dotall) ==
    IF starts = {} THEN <<>>
    ELSE ChildrenFrom(s, ChildAt(s, Min(starts), prefix, key, cap, closeTag, dotall), prefix, key, cap, closeTag, dotall)
\* re.findall of a child pattern: the leftmost matches, left to right, not overlapping
FindAllChildren(s, from, prefix, key, cap, closeTag, dotall) ==
    ChildrenAt(s, ChildStarts(s, from, prefix, key, cap, closeTag, dotall), prefix, key, cap, closeTag, dotall)

\* [^/]*/> from offset q + 1, the first '/' at offset sl (-1: there is none)
DataEndTo(s, i, l, k, q, sl) ==
    IF sl = -1 \/ ~StartsAt(s, k_selfclose, sl) THEN NoMatchAt
    ELSE [ok |-> TRUE, start |-> i, label |-> l.cap, value |-> Slice(s, k, q), end |-> sl + 2]
DataValueTo(s, i, l, k, q) == IF q = -1 THEN NoMatchAt ELSE DataEndTo(s, i, l, k, q, Find(s, <<"/">>, q + 1))
DataKeyTo(s, i, l, k) == IF k = -1 THEN NoMatchAt ELSE DataValueTo(s, i, l, k, Find(s, <<"\"">>, k))
DataLabelTo(s, i, l) == IF ~l.ok THEN NoMatchAt ELSE DataKeyTo(s, i, l, AfterWsKey(s, l.end, k_value_eq))

\* <trait:data\s+label="([^"]*)"\s+value="([^"]*)"[^/]*/> at offset i
DataAt(s, i) == DataLabelTo(s, i, HeadAt(s, i, k_data_open, k_label_eq, TRUE))

DataStarts(s, from) == {i \in from..(Len(s) - 1) : StartsAt(s, k_data_open, i) /\ DataAt(s, i).ok}

RECURSIVE FindAllData(_, _)
RECURSIVE DataFrom(_, _)
DataFrom(s, m) == <<m>> \o FindAllData(s, m.end)
DataAtStarts(s, starts) == IF starts = {} THEN <<>> ELSE DataFrom(s, DataAt(s, Min(starts)))
\* re.findall of the data pattern
FindAllData(s, from) == DataAtStarts(s, DataStarts(s, from))

\* ------------------------------------------------------------------------
\* Numbers: int(str), str(int), and the quotients shown as percentages
\* ------------------------------------------------------------------------
DigitVal == [c \in DigitSet |-> (CHOOSE i \in 1..10 : DigitChars[i] = c) - 1]

\* digits with single underscores between them
IsDigitsBody(s) ==
    /\ Len(s) > 0
    /\ s[1] \in DigitSet
    /\ s[Len(s)] \in DigitSet
    /\ \A i \in 1..Len(s) : s[i] \in DigitSet \/ (s[i] = "_" /\ s[i - 1] \in DigitSet /\ s[i + 1] \in DigitSet)

RECURSIVE DigitsValue(_, _)
DigitsValue(s, acc) ==
    IF s = <<>> THEN acc
    ELSE IF Head(s) = "_" THEN DigitsValue(Tail(s), acc)
    ELSE DigitsValue(Tail(s), acc * 10 + DigitVal[Head(s)])

\* int(s) for a str: ok is FALSE where Python raises ValueError
PyInt(s) ==
    LET b == strip(s)
        signed == Len(b) > 0 /\ (b[1] = "+" \/ b[1] = "-")
        body == IF signed THEN Tail(b) ELSE b
    IN  IF ~IsDigitsBody(body) THEN [ok |-> FALSE, val |-> 0]
        ELSE [ok |-> TRUE, val |-> IF signed /\ b[1] = "-" THEN 0 - DigitsValue(body, 0) ELSE DigitsValue(body, 0)]

RECURSIVE NatStr(_)
NatStr(n) == IF n < 10 THEN <<DigitChars[n + 1]>> ELSE NatStr(n \div 10) \o <<DigitChars[(n % 10) + 1]>>
\* str(n) for an int
IntStr(n) == IF n < 0 THEN <<"-">> \o NatStr(0 - n) ELSE NatStr(n)

\* the quotient n / d (d # 0), kept exact with a positive denominator
Rat(n, d) == IF d < 0 THEN [num |-> 0 - n, den |-> 0 - d] ELSE [num |-> n, den |-> d]
\* max(lo, r) and min(hi, r) for an int bound and a quotient
RatMax(lo, r) == IF r.num > lo * r.den THEN r ELSE [num |-> lo, den |-> 1]
RatMin(hi, r) == IF r.num < hi * r.den THEN r ELSE [num |-> hi, den |-> 1]
\* a number interpolated into an f-string
N(r) == [k |-> "n", num |-> r.num, den |-> r.den]

\* ------------------------------------------------------------------------
\* render_widget: the leaf widgets.  impl is "scenarios" for
\* test_aml_scenarios.py and "aml" for test_aml.py; where the two files
\* differ only in layout whitespace of the markup, the markup of
\* test_aml_scenarios.py is written.  Icon characters outside ASCII are
\* written as character references.
\* ------------------------------------------------------------------------
RECURSIVE Split(_, _)
\* s.split(sep) for a one-character separator
Split(s, sep) ==
    LET at == Find(s, <<sep>>, 0)
    IN  IF at = -1 THEN <<s>> ELSE <<Slice(s, 0, at)>> \o Split(SliceFrom(s, at + 1), sep)

Last(seq) == seq[Len(seq)]

Ok(html) == [ok |-> TRUE, html |-> html]
Raise(e) == [ok |-> FALSE, exc |-> e]

\* an optional element that shows an attribute when it is present
OptAttr(attrs, name, open, close) ==
    IF name \in DOMAIN attrs THEN <<M(open), T(attrs[name]), M(close)>> ELSE <<>>

render_button(content) ==
    <<M("<span class=\"trait-button\">"), T(escape(content)), M("</span>")>>

render_code(impl, attrs, content) ==
    LET file_html == OptAttr(attrs, a_file, "<span class=\"trait-code-file\">", "</span>")
        lang_html == OptAttr(attrs, a_language, "<span class=\"trait-code-lang\">", "</span>")
        header == IF impl = "aml" \/ file_html # <<>> \/ lang_html # <<>>
                  THEN <<M("<div class=\"trait-code-header\">")>> \o file_html \o lang_html \o <<M("</div>")>>
                  ELSE <<>>
    IN  <<M("<div class=\"trait-code-block\">")>> \o header
        \o <<M("<pre class=\"trait-code\">"), T(escape(content)), M("</pre></div>")>>

render_coderef(attrs) ==
    LET text == Get(attrs, a_text, Get(attrs, a_path, <<>>))
    IN  <<M("<code class=\"trait-coderef\">"), T(escape(text)), M("</code>")>>

diff_line(line) ==
    IF StartsAt(line, s_plus, 0)
    THEN <<M("<div class=\"trait-diff-line trait-diff-added\"><span class=\"trait-diff-marker\">+</span><span class=\"trait-diff-text\">"),
           T(escape(SliceFrom(line, 1))), M("</span></div>")>>
    ELSE IF StartsAt(line, s_minus, 0)
    THEN <<M("<div class=\"trait-diff-line trait-diff-removed\"><span class=\"trait-diff-marker\">-</span><span class=\"trait-diff-text\">"),
           T(escape(SliceFrom(line, 1))), M("</span></div>")>>
    ELSE <<M("<div class=\"trait-diff-line\"><span class=\"trait-diff-marker\"> </span><span class=\"trait-diff-text\">"),
           T(escape(line)), M("</span></div>")>>

render_diff(attrs, content) ==
    LET lines == Split(strip(content), "\n")
        lines_html == Flatten([i \in 1..Len(lines) |-> diff_line(lines[i])])
        header == OptAttr(attrs, a_file, "<div class=\"trait-diff-header\">", "</div>")
    IN  <<M("<div class=\"trait-diff\">")>> \o header \o <<M("<div class=\"trait-diff-content\">")>>
        \o lines_html \o <<M("</div></div>")>>

render_file(impl, attrs) ==
    LET name == Get(attrs, a_name, Last(Split(Get(attrs, a_path, <<>>), "/")))
        line == IF impl = "aml" /\ a_line \in DOMAIN attrs THEN <<M(":"), T(attrs[a_line])>> ELSE <<>>
    IN  <<M("<span class=\"trait-file\">/"), T(escape(name))>> \o line \o <<M("</span>")>>

render_list(attrs, content) ==
    LET items == FindAllChildren(content, 0, k_item_open, <<>>, FALSE, k_item_close, TRUE)
        items_html == Flatten([i \in 1..Len(items) |->
            <<M("<li class=\"trait-item\">"), T(escape(strip(items[i].inner))), M("</li>")>>])
        ordered == Get(attrs, a_ordered, <<>>) = s_true
    IN  <<M(IF ordered THEN "<ol class=\"trait-list\">" ELSE "<ul class=\"trait-list\">")>>
        \o items_html \o <<M(IF ordered THEN "</ol>" ELSE "</ul>")>>

todo_item(done, text) ==
    <<M(IF done = s_true
        THEN "<li class=\"trait-todo-item trait-todo-done\"><input type=\"checkbox\" checked disabled> <span>"
        ELSE "<li class=\"trait-todo-item \"><input type=\"checkbox\"  disabled> <span>"),
      T(escape(strip(text))), M("</span></li>")>>

render_todo(attrs, content) ==
    LET items == FindAllChildren(content, 0, k_item_open, k_done_eq, TRUE, k_item_close, TRUE)
        items_html == Flatten([i \in 1..Len(items) |-> todo_item(items[i].cap, items[i].inner)])
        title == OptAttr(attrs, a_title, "<div class=\"trait-todo-header\">", "</div>")
    IN  <<M("<div class=\"trait-todo\">")>> \o title \o <<M("<ul class=\"trait-todo-list\">")>>
        \o items_html \o <<M("</ul></div>")>>

\* render_cells; header is TRUE for .replace("<td", "<th").replace("/td>", "/th>"),
\* which changes the two markup literals only: the escaped cell text holds neither '<' nor '>'
render_cells(row_content, header) ==
    LET cells == FindAllChildren(row_content, 0, k_cell_open, <<>>, FALSE, k_cell_close, TRUE)
    IN  Flatten([i \in 1..Len(cells) |->
            <<M(IF header THEN "<th class=\"trait-cell\">" ELSE "<td class=\"trait-cell\">"),
              T(escape(strip(cells[i].inner))),
              M(IF header THEN "</th>" ELSE "</td>")>>])

\* the rows a table keeps for its body: row not in rows
body_rows(rows, data_rows) ==
    SelectSeq(data_rows, LAMBDA r : \A j \in 1..Len(rows) : rows[j].inner # r.inner)

render_table(content) ==
    LET rows == FindAllChildren(content, 0, k_row_open, k_header_true, FALSE, k_row_close, TRUE)
        data_rows == FindAllChildren(content, 0, k_row_open, <<>>, FALSE, k_row_close, TRUE)
        header_html == IF rows # <<>>
                       THEN <<M("<tr class=\"trait-row trait-row-header\">")>> \o render_cells(rows[1].inner, TRUE) \o <<M("</tr>")>>
                       ELSE <<>>
        kept == body_rows(rows, data_rows)
        data_html == Flatten([i \in 1..Len(kept) |->
            <<M("<tr class=\"trait-row\">")>> \o render_cells(kept[i].inner, FALSE) \o <<M("</tr>")>>])
    IN  <<M("<table class=\"trait-table\"><tbody>")>> \o header_html \o data_html \o <<M("</tbody></table>")>>

render_badge(attrs, content) ==
    <<M("<span class=\"trait-badge trait-badge-"), T(Get(attrs, a_variant, s_default)), M("\">"),
      T(escape(content)), M("</span>")>>

render_tag(content) ==
    <<M("<span class=\"trait-tag\">"), T(escape(content)), M("</span>")>>

\* the quotient without its two clamps
ProgressUnclamped(value, max_val) == Rat(value * 100, max_val)

\* pct = min(100, max(0, (value / max_val) * 100))
progress_pct(value, max_val) == RatMin(100, RatMax(0, Rat(value * 100, max_val)))

render_progress(attrs) ==
    LET value == IF a_value \in DOMAIN attrs THEN PyInt(attrs[a_value]) ELSE [ok |-> TRUE, val |-> 0]
        max_val == IF a_max \in DOMAIN attrs THEN PyInt(attrs[a_max]) ELSE [ok |-> TRUE, val |-> 100]
    IN  IF ~value.ok \/ ~max_val.ok THEN Raise("ValueError")
        ELSE IF max_val.val = 0 THEN Raise("ZeroDivisionError")
        ELSE LET both == IntStr(value.val) \o s_slash \o IntStr(max_val.val)
             IN  Ok(<<M("<div class=\"trait-progress\"><div class=\"trait-progress-label\"><span>"),
                      T(Get(attrs, a_label, both)), M("</span><span>"), T(both),
                      M("</span></div><div class=\"trait-progress-bar\"><div class=\"trait-progress-fill\" style=\"width: "),
                      N(progress_pct(value.val, max_val.val)), M("%\"></div></div></div>")>>)

render_metric(impl, attrs) ==
    LET change == IF impl = "scenarios" /\ a_change \in DOMAIN attrs
                  THEN <<M(IF StartsAt(attrs[a_change], s_plus, 0)
                           THEN "<div class=\"trait-metric-change trait-metric-change-up\">"
                           ELSE "<div class=\"trait-metric-change trait-metric-change-down\">"),
                         T(attrs[a_change]), M("</div>")>>
                  ELSE <<>>
    IN  <<M("<div class=\"trait-metric\"><div class=\"trait-metric-value\">"), T(Get(attrs, a_value, <<>>)),
          M("</div><div class=\"trait-metric-label\">"), T(Get(attrs, a_label, <<>>)), M("</div>")>>
        \o change \o <<M("</div>")>>

\* the least bar height and the full-scale bar height of a chart
BarFloor(impl) == IF impl = "scenarios" THEN 15 ELSE 10
BarScale(impl) == IF impl = "scenarios" THEN 90 ELSE 80

\* the scaled height without the floor
BarUnfloored(impl, v, max_val) == Rat(v * BarScale(impl), max_val)

\* max(floor, (int(v) / max_val) * scale)
bar_height(impl, v, max_val) == RatMax(BarFloor(impl), Rat(v * BarScale(impl), max_val))

render_chart(impl, attrs, content) ==
    LET data_points == FindAllData(content, 0)
        vals == [i \in 1..Len(data_points) |-> PyInt(data_points[i].value)]
    IN  IF \E i \in 1..Len(vals) : ~vals[i].ok THEN Raise("ValueError")
        ELSE LET max_val == IF vals = <<>> THEN 1 ELSE Max({vals[i].val : i \in 1..Len(vals)})
             IN  IF vals # <<>> /\ max_val = 0 THEN Raise("ZeroDivisionError")
                 ELSE LET bars_html == Flatten([i \in 1..Len(data_points) |->
                              <<M("<div class=\"trait-chart-bar\" style=\"height: "),
                                N(bar_height(impl, vals[i].val, max_val)),
                                M("%\"><div class=\"trait-chart-bar-value\">"), T(data_points[i].value),
                                M("</div><div class=\"trait-chart-bar-label\">"), T(data_points[i].label),
                                M("</div></div>")>>])
                          title == OptAttr(attrs, a_title, "<div class=\"trait-chart-title\">", "</div>")
                      IN  Ok(<<M("<div class=\"trait-chart\">")>> \o title
                             \o <<M("<div class=\"trait-chart-content\">")>> \o bars_html \o <<M("</div></div>")>>)

render_terminal(attrs, content) ==
    LET commands == FindAllChildren(content, 0, k_command_open, <<>>, FALSE, k_command_close, TRUE)
        outputs == FindAllChildren(content, 0, k_output_open, k_type_eq, TRUE, k_output_close, TRUE)
        cmd_html == Flatten([i \in 1..Len(commands) |->
            <<M("<div class=\"trait-command\">"), T(escape(strip(commands[i].inner))), M("</div>")>>])
        out_html == Flatten([i \in 1..Len(outputs) |->
            <<M("<div class=\"trait-output trait-output-"), T(outputs[i].cap), M("\">"),
              T(escape(strip(outputs[i].inner))), M("</div>")>>])
    IN  <<M("<div class=\"trait-terminal\"><div class=\"trait-terminal-header\"><span class=\"trait-terminal-title\">"),
          T(Get(attrs, a_title, s_Terminal)), M("</span></div><div class=\"trait-terminal-content\">")>>
        \o cmd_html \o out_html \o <<M("</div></div>")>>

AlertTags == {t_info, t_warning, t_error, t_success, t_tip}

alert_open(tag_name) ==
    CASE tag_name = t_info -> "<div class=\"trait-alert trait-alert-info\"><span class=\"trait-alert-icon\">&#8505;</span><span>"
      [] tag_name = t_warning -> "<div class=\"trait-alert trait-alert-warning\"><span class=\"trait-alert-icon\">&#9888;</span><span>"
      [] tag_name = t_error -> "<div class=\"trait-alert trait-alert-error\"><span class=\"trait-alert-icon\">&#10005;</span><span>"
      [] tag_name = t_success -> "<div class=\"trait-alert trait-alert-success\"><span class=\"trait-alert-icon\">&#10003;</span><span>"
      [] tag_name = t_tip -> "<div class=\"trait-alert trait-alert-tip\"><span class=\"trait-alert-icon\">&#128161;</span><span>"

render_alert(tag_name, content) ==
    <<M(alert_open(tag_name)), T(escape(strip(content))), M("</span></div>")>>

render_search(impl, attrs) ==
    LET results == Get(attrs, a_results, <<>>)
        res_html == IF results = <<>> THEN <<>>
                    ELSE <<M("<span class=\"trait-search-results\">"), T(results),
                           M(IF impl = "scenarios" THEN " results</span>" ELSE "</span>")>>
    IN  <<M("<div class=\"trait-search\">&#128269; <span class=\"trait-search-query\">"),
          T(escape(Get(attrs, a_query, <<>>))), M("</span>")>> \o res_html \o <<M("</div>")>>

RECURSIVE JoinWith(_, _)
\* sep.join(items)
JoinWith(sep, items) ==
    IF items = <<>> THEN <<>>
    ELSE IF Len(items) = 1 THEN Head(items)
    ELSE Head(items) \o sep \o JoinWith(sep, Tail(items))

render_breadcrumb(content) ==
    LET tags == FindAllChildren(content, 0, k_tagw_open, <<>>, FALSE, k_tagw_close, FALSE)
        items == [i \in 1..Len(tags) |-> <<M("<span class=\"trait-tag\">"), T(escape(tags[i].inner)), M("</span>")>>]
        sep == <<M("<span class=\"trait-breadcrumb-separator\">/</span>")>>
    IN  <<M("<div class=\"trait-breadcrumb\">")>> \o JoinWith(sep, items) \o <<M("</div>")>>

render_timestamp(attrs) ==
    <<M("<span class=\"trait-timestamp\">"), T(Get(attrs, a_value, <<>>)), M("</span>")>>

render_link(content) ==
    <<M("<span class=\"trait-link\">"), T(escape(content)), M("</span>")>>

render_spacer(attrs) ==
    <<M("<div style=\"height: "), T(Get(attrs, a_size, s_12px)), M("\"></div>")>>

render_unknown(tag_name) ==
    <<M("<span style=\"color: #d95555;\">Unknown: "), T(tag_name), M("</span>")>>

\* the tags whose rule calls render_aml on the content
ContainerTags == {t_card, t_grid, t_filetree, t_folder}

\* render_widget for every tag that is not a container: ok and the fragment,
\* or the exception that int() or the division raises
RenderLeaf(impl, tag_name, attrs, content) ==
    CASE tag_name = t_button -> Ok(render_button(content))
      [] tag_name = t_code -> Ok(render_code(impl, attrs, content))
      [] tag_name = t_coderef -> Ok(render_coderef(attrs))
      [] tag_name = t_diff -> Ok(render_diff(attrs, content))
      [] tag_name = t_file -> Ok(render_file(impl, attrs))
      [] tag_name = t_list -> Ok(render_list(attrs, content))
      [] tag_name = t_todo -> Ok(render_todo(attrs, content))
      [] tag_name = t_table -> Ok(render_table(content))
      [] tag_name = t_badge -> Ok(render_badge(attrs, content))
      [] tag_name = t_tag -> Ok(render_tag(content))
      [] tag_name = t_progress -> render_progress(attrs)
      [] tag_name = t_metric -> Ok(render_metric(impl, attrs))
      [] tag_name \in {t_chart, t_barchart} -> render_chart(impl, attrs, content)
      [] tag_name = t_terminal -> Ok(render_terminal(attrs, content))
      [] tag_name \in AlertTags -> Ok(render_alert(tag_name, content))
      [] tag_name = t_search -> Ok(render_search(impl, attrs))
      [] tag_name = t_breadcrumb -> Ok(render_breadcrumb(content))
      [] tag_name = t_timestamp -> Ok(render_timestamp(attrs))
      [] tag_name = t_link -> Ok(render_link(content))
      [] tag_name = t_divider -> Ok(<<M("<hr class=\"trait-divider\">")>>)
      [] tag_name = t_spacer -> Ok(render_spacer(attrs))
      [] tag_name = t_br -> Ok(<<M("<br>")>>)
      [] tag_name = t_item /\ impl = "aml" -> Ok(<<T(escape(content))>>)
      [] OTHER -> Ok(render_unknown(tag_name))

\* render_widget for a container, once render_aml(content) has returned inner
RenderContainer(tag_name, attrs, inner) ==
    CASE tag_name = t_card ->
            <<M("<div class=\"trait-card\">")>>
            \o (IF a_title \in DOMAIN attrs
                THEN <<M("<div class=\"trait-card-title\">"), T(escape(attrs[a_title])), M("</div>")>>
                ELSE <<>>)
            \o <<M("<div class=\"trait-card-content\">")>> \o inner \o <<M("</div></div>")>>
      [] tag_name = t_grid ->
            <<M("<div class=\"trait-grid\" style=\"grid-template-columns: repeat("), T(Get(attrs, a_cols, s_3)),
              M(", 1fr);\">")>> \o inner \o <<M("</div>")>>
      [] tag_name = t_filetree ->
            <<M("<div class=\"trait-filetree\"><div class=\"trait-filetree-header\">"), T(Get(attrs, a_root, s_Files)),
              M("</div>")>> \o inner \o <<M("</div>")>>
      [] tag_name = t_folder ->
            <<M("<div class=\"trait-folder\"><div class=\"trait-folder-header\">&#9660; "),
              T(escape(Get(attrs, a_name, s_folder))), M("</div><div class=\"trait-folder-children\">")>>
            \o inner \o <<M("</div></div>")>>

\* ------------------------------------------------------------------------
\* Inputs
\* ------------------------------------------------------------------------
\* the most tokens in an input of tags and text
MaxTokens == 3
\* the most tokens in an input of nested cards
MaxNest == 5
\* the most characters in an input without tags
MaxText == 3
\* the most rows in a table, lines in a terminal, data points in a chart
MaxRows == 3
MaxLines == 3
MaxData == 2
\* the most fragments one render_aml call may hold before it opens another tag
MaxResult == 6

t_row == <<"t", "r", "a", "i", "t", ":", "r", "o", "w">>
t_cell == <<"t", "r", "a", "i", "t", ":", "c", "e", "l", "l">>
t_data == <<"t", "r", "a", "i", "t", ":", "d", "a", "t", "a">>
t_command == <<"t", "r", "a", "i", "t", ":", "c", "o", "m", "m", "a", "n", "d">>
t_output == <<"t", "r", "a", "i", "t", ":", "o", "u", "t", "p", "u", "t">>
t_zzz == <<"t", "r", "a", "i", "t", ":", "z", "z", "z">>
a_header == <<"h", "e", "a", "d", "e", "r">>
a_type == <<"t", "y", "p", "e">>
a_done == <<"d", "o", "n", "e">>

\* the text of tags
OpenText(name) == <<"<">> \o name \o <<">">>
CloseText(name) == <<"<", "/">> \o name \o <<">">>
Attr(name, val) == <<" ">> \o name \o <<"=", "\"">> \o val \o <<"\"">>
Elem(name, attrs, inner) == <<"<">> \o name \o attrs \o <<">">> \o inner \o CloseText(name)
SelfClosed(name, attrs) == <<"<">> \o name \o attrs \o <<"/", ">">>

TokenSeqs(tokens, n) == UNION {[1..k -> tokens] : k \in 0..n}
Concats(tokens, n) == {Flatten(ts) : ts \in TokenSeqs(tokens, n)}

\* tags and text side by side
ComposerTokens ==
    {OpenText(t_card), CloseText(t_card), SelfClosed(t_file, Attr(a_name, <<"a">>)), OpenText(t_br), <<"a">>, <<" ">>}
ComposerInputs == Concats(ComposerTokens, MaxTokens)

\* cards in cards
NestTokens == {OpenText(t_card), CloseText(t_card), <<"a">>}
NestInputs == Concats(NestTokens, MaxNest)

\* text without tags, with the reserved characters
TextChars == {<<"a">>, <<" ">>, <<"&">>, <<"<">>, <<">">>, <<"\"">>, <<"'">>}
TextInputs == Concats(TextChars, MaxText)

\* a table and its rows
RowTokens ==
    {Elem(t_row, Attr(a_header, s_true), Elem(t_cell, <<>>, <<"A">>)),
     Elem(t_row, Attr(a_header, s_true), Elem(t_cell, <<>>, <<"B">>)),
     Elem(t_row, <<>>, Elem(t_cell, <<>>, <<"A">>)),
     Elem(t_row, <<>>, Elem(t_cell, <<>>, <<"B">>))}
TableInputs == {Elem(t_table, <<>>, rows) : rows \in Concats(RowTokens, MaxRows)}

\* a terminal and its lines
LineTokens ==
    {Elem(t_command, <<>>, <<"c">>), Elem(t_command, <<>>, <<"d">>),
     Elem(t_output, Attr(a_type, <<"o", "u", "t">>), <<"o">>),
     Elem(t_output, Attr(a_type, <<"e", "r", "r">>), <<"p">>)}
TerminalInputs == {Elem(t_terminal, <<>>, lines) : lines \in Concats(LineTokens, MaxLines)}

\* a chart and its data points, followed by text
DataTokens ==
    {SelfClosed(t_data, Attr(a_label, <<"a">>) \o Attr(a_value, <<"3">>)),
     SelfClosed(t_data, Attr(a_label, <<"b">>) \o Attr(a_value, <<"6">>)),
     SelfClosed(t_data, Attr(a_label, <<"c">>) \o Attr(a_value, <<"x">>)),
     SelfClosed(t_data, Attr(a_label, <<"d">>) \o Attr(a_value, <<"0">>))}
ChartInputs == {Elem(t_chart, <<>>, points) \o <<"a">> : points \in Concats(DataTokens, MaxData)}

\* a progress bar, followed by text
ProgressValues == {<<>>, Attr(a_value, <<"5">>), Attr(a_value, <<"-", "3">>), Attr(a_value, <<"2", "5", "0">>),
                   Attr(a_value, <<"a", "b", "c">>)}
ProgressMaxes == {<<>>, Attr(a_max, <<"1", "0">>), Attr(a_max, <<"0">>), Attr(a_max, <<"x">>)}
ProgressInputs == {SelfClosed(t_progress, v \o m) \o <<"a">> : v \in ProgressValues, m \in ProgressMaxes}

\* every widget, with reserved characters in its attribute values and content
Hostile == <<"<", "&">>
WidgetInputs ==
    {Elem(t_button, <<>>, Hostile),
     Elem(t_code, Attr(a_file, Hostile) \o Attr(a_language, Hostile), Hostile),
     SelfClosed(t_coderef, Attr(a_text, Hostile)),
     SelfClosed(t_coderef, Attr(a_path, Hostile)),
     Elem(t_diff, Attr(a_file, Hostile), <<"+">> \o Hostile \o <<"\n", "-">> \o Hostile \o <<"\n">> \o Hostile),
     SelfClosed(t_file, Attr(a_name, Hostile)),
     SelfClosed(t_file, Attr(a_path, <<"d", "/">> \o Hostile) \o Attr(a_line, Hostile)),
     Elem(t_list, Attr(a_ordered, s_true), Elem(t_item, <<>>, Hostile)),
     Elem(t_todo, Attr(a_title, Hostile), Elem(t_item, Attr(a_done, s_true), Hostile) \o Elem(t_item, <<>>, Hostile)),
     Elem(t_table, <<>>, Elem(t_row, <<>>, Elem(t_cell, <<>>, Hostile))),
     Elem(t_badge, Attr(a_variant, Hostile), Hostile),
     Elem(t_tag, <<>>, Hostile),
     SelfClosed(t_progress, Attr(a_value, <<"5">>) \o Attr(a_label, Hostile)),
     SelfClosed(t_metric, Attr(a_value, Hostile) \o Attr(a_label, Hostile) \o Attr(a_change, Hostile)),
     Elem(t_barchart, Attr(a_title, Hostile), SelfClosed(t_data, Attr(a_label, Hostile) \o Attr(a_value, <<"3">>))),
     Elem(t_terminal, Attr(a_title, Hostile),
          Elem(t_command, <<>>, Hostile) \o Elem(t_output, Attr(a_type, Hostile), Hostile)),
     Elem(t_info, <<>>, Hostile),
     Elem(t_warning, <<>>, Hostile),
     Elem(t_error, <<>>, Hostile),
     Elem(t_success, <<>>, Hostile),
     Elem(t_tip, <<>>, Hostile),
     Elem(t_card, Attr(a_title, Hostile), Hostile),
     Elem(t_grid, Attr(a_cols, Hostile), Hostile),
     Elem(t_filetree, Attr(a_root, Hostile), Hostile),
     Elem(t_folder, Attr(a_name, Hostile), Hostile),
     SelfClosed(t_search, Attr(a_query, Hostile) \o Attr(a_results, Hostile)),
     Elem(t_breadcrumb, <<>>, Elem(t_tag, <<>>, Hostile) \o Elem(t_tag, <<>>, Hostile)),
     SelfClosed(t_timestamp, Attr(a_value, Hostile)),
     Elem(t_link, <<>>, Hostile),
     OpenText(t_divider),
     SelfClosed(t_spacer, Attr(a_size, Hostile)),
     Elem(t_item, <<>>, Hostile),
     Elem(t_zzz, <<>>, Hostile)}

\* a tag outside the widget table, alone or between text
UnknownElems ==
    {SelfClosed(t_zzz, <<>>), Elem(t_zzz, <<>>, <<"b">>), Elem(t_zzz, <<>>, <<dotted_I>>),
     SelfClosed(t_row, Attr(a_header, s_true))}
UnknownInputs == {pre \o u \o post : pre \in {<<>>, <<"a">>}, u \in UnknownElems, post \in {<<>>, <<"a">>}}

\* slashes and blanks at the end of a tag, void tags with a closing tag
SlashInputs ==
    {<<"<">> \o t_file \o Attr(a_name, <<"a">>) \o <<"/", " ", ">", "a">>,
     <<"<">> \o t_file \o Attr(a_name, <<"a">>) \o <<" ", "/", " ", " ", ">">>,
     <<"<">> \o t_card \o <<" ", "/", " ", ">", "a">>,
     Elem(t_file, Attr(a_name, <<"a", "/">>), <<"x">>),
     Elem(t_br, <<>>, <<"a">>),
     <<"a">> \o Elem(t_spacer, Attr(a_size, <<"1">>), <<>>),
     <<"<">> \o t_br \o <<" ", ">", "a">>}

\* a number of recursive calls that a cap might allow; the deepest input
\* nests one container more
DepthCap == 3
ContainerCycle == <<t_card, t_folder, t_grid, t_filetree>>
RECURSIVE DeepNest(_, _)
\* n containers, one inside the other, the outermost being number k of the cycle
DeepNest(n, k) ==
    IF n = 0 THEN <<"a">>
    ELSE Elem(ContainerCycle[((k - 1) % 4) + 1], <<>>, DeepNest(n - 1, k + 1))
DeepInputs == {DeepNest(n, 1) : n \in 1..(DepthCap + 1)}

\* the most items in a todo list
MaxItems == 2
\* a todo list and its items: done, not done, and without the attribute
ItemTokens ==
    {Elem(t_item, Attr(a_done, s_true), <<"x">>),
     Elem(t_item, Attr(a_done, <<"f", "a", "l", "s", "e">>), <<"y">>),
     Elem(t_item, <<>>, <<"z">>)}
TodoInputs == {Elem(t_todo, <<>>, items) : items \in Concats(ItemTokens, MaxItems)}

\* the most tokens in an attribute string
MaxAttrs == 3
\* two well-formed pairs, and text that is no pair: a bare word, a value
\* without quotes, a quoted value without a name, a lone quote
AttrPairs == {[name |-> <<"a">>, val |-> <<"x">>], [name |-> <<"b">>, val |-> <<"y">>]}
AttrJunk == {<<" ", "j", "u", "n", "k">>, <<" ", "c", "=", "z">>, <<" ", "=", "\"", "q", "\"">>, <<" ", "\"">>}
AttrTokens == {Attr(p.name, p.val) : p \in AttrPairs} \cup AttrJunk
AttrInputs == {SelfClosed(t_metric, attr_str) : attr_str \in Concats(AttrTokens, MaxAttrs)}

\* the most tokens in an input of angle-bracket text
MaxMixed == 2
\* angle-bracket sequences that are no opening tag of the dialect
NonTraitTokens ==
    {<<"<", "b", ">">>, <<"<", "/", "d", "i", "v", ">">>, CloseText(t_card),
     <<"<", " ">> \o t_br \o <<">">>, <<"<", "t", "r", "a", "i", "t", ":", "1", ">">>}
NonTraitInputs == Concats(NonTraitTokens \cup {<<"a">>, SelfClosed(t_br, <<>>)}, MaxMixed)

\* the most tokens in an input of tags whose names start alike
MaxPrefix == 3
\* trait:code and trait:coderef, whose name starts with "trait:code"
PrefixTokens == {OpenText(t_code), SelfClosed(t_coderef, Attr(a_path, <<"x">>)), CloseText(t_code), <<"a">>}
PrefixInputs == Concats(PrefixTokens, MaxPrefix)

\* tags with '>', an opening tag or a closing tag inside a quoted attribute value
QuoteInputs ==
    {Elem(t_card, Attr(a_title, <<"a", ">", "b">>), <<"x">>),
     SelfClosed(t_file, Attr(a_name, <<"a", ">", "b">>)),
     Elem(t_card, Attr(a_title, CloseText(t_card)), <<"x">>),
     Elem(t_card, Attr(a_title, <<"<">> \o t_card), <<"x">>),
     Elem(t_card, <<>>, SelfClosed(t_file, Attr(a_name, CloseText(t_card))) \o <<"x">>),
     Elem(t_card, <<>>, SelfClosed(t_file, Attr(a_name, <<"<">> \o t_card)) \o <<"x">>)}

\* attributes in double and in single quotes, with and without the other
\* kind of quote in the value
QuotedPairs ==
    {[name |-> a_value, q |-> "\"", val |-> <<"v">>],
     [name |-> a_value, q |-> "'", val |-> <<"v">>],
     [name |-> a_value, q |-> "\"", val |-> <<"i", "t", "'", "s">>],
     [name |-> a_label, q |-> "'", val |-> <<"a", "\"", "b">>]}
QuotedAttr(p) == <<" ">> \o p.name \o <<"=", p.q>> \o p.val \o <<p.q>>
QuotedInputs == {SelfClosed(t_metric, QuotedAttr(p)) \o <<"a">> : p \in QuotedPairs}

\* two paired tags of the same name, one after the other
SiblingInputs ==
    {Elem(t, <<>>, a) \o mid \o Elem(t, <<>>, <<"B">>) :
        t \in {t_card, t_button, t_folder}, a \in {<<"A">>, <<dotted_I>>}, mid \in {<<>>, <<"m">>}}

\* a self-closing tag inside a paired tag of the same name
SelfInsideInputs ==
    {Elem(t_folder, Attr(a_name, <<"a">>), pre \o SelfClosed(t_folder, Attr(a_name, <<"b">>))) \o post :
        pre \in {<<>>, <<"x">>}, post \in {<<>>, <<"y">>, CloseText(t_folder)}}

\* inputs with the letter whose lower-case form is longer: before a tag, as
\* the content of a card, and in runs of up to MaxDots as the content of a tag
MaxDots == 12
DotRun(k) == [i \in 1..k |-> dotted_I]
DottedInputs ==
    {DotRun(1) \o Elem(t_card, <<>>, <<"x">>)}
    \cup {Elem(t_card, <<>>, DotRun(1)) \o post : post \in {<<>>, <<"a">>}}
    \cup {Elem(t_tag, <<>>, DotRun(k)) : k \in 1..MaxDots}

Inputs ==
    ComposerInputs \cup NestInputs \cup TextInputs \cup TableInputs \cup TerminalInputs
    \cup ChartInputs \cup ProgressInputs \cup WidgetInputs \cup UnknownInputs \cup SlashInputs \cup DeepInputs \cup TodoInputs \cup AttrInputs \cup NonTraitInputs \cup PrefixInputs \cup QuoteInputs \cup QuotedInputs \cup SiblingInputs \cup SelfInsideInputs \cup DottedInputs

\* ------------------------------------------------------------------------
\* render_aml: the composer.  One frame per active call of render_aml,
\* the innermost call last.
\* ------------------------------------------------------------------------
VARIABLES impl, stack, status, exc, output

vars == <<impl, stack, status, exc, output>>

\* the locals of a render_aml call that starts on content c
NewFrame(c) ==
    [content |-> c, pos |-> 0, result |-> <<>>, log |-> <<>>, pc |-> "outer",
     tag_start |-> 0, mlen |-> 0, tag_name |-> <<>>, attrs_str |-> <<>>,
     depth |-> 0, search_pos |-> 0, inner |-> <<>>, end_pos |-> 0]

Init ==
    /\ impl \in {"scenarios", "aml"}
    /\ \E c \in Inputs : stack = <<NewFrame(c)>>
    /\ status = "running"
    /\ exc = "none"
    /\ output = <<>>

Top == stack[Len(stack)]
SetTop(f) == [stack EXCEPT ![Len(stack)] = f]

\* f'<div class="trait-text-content"><p>{escape(text)}</p></div>'
Paragraph(text) == <<M("<div class=\"trait-text-content\"><p>"), T(escape(text)), M("</p></div>")>>

\* what a fragment of result came from: a text run, a widget or an unmatched tag
\* [start, stop) is the source it consumed, open_end the offset after the '>' of its opening tag
LogEntry(kind, start, open_end, stop, name, attrs, inner) ==
    [kind |-> kind, start |-> start, open_end |-> open_end, stop |-> stop, name |-> name,
     attrs |-> attrs, inner |-> inner]

\* a flush that puts the paragraph in front of the fragments already there
FlushTextFirst(f, upto) ==
    LET text == strip(Slice(f.content, f.pos, upto))
    IN  IF text # <<>>
        THEN [f EXCEPT !.result = <<Paragraph(text)>> \o @,
                       !.log = <<LogEntry("text", f.pos, f.pos, upto, <<>>, <<>>, <<>>)>> \o @]
        ELSE f

\* text = content[pos:upto].strip(); if text: result.append(paragraph)
FlushText(f, upto) ==
    LET text == strip(Slice(f.content, f.pos, upto))
    IN  IF text # <<>>
        THEN [f EXCEPT !.result = Append(@, Paragraph(text)),
                       !.log = Append(@, LogEntry("text", f.pos, f.pos, upto, <<>>, <<>>, <<>>))]
        ELSE f

\* a test that knows the slash only
SelfClosingSlashOnly(i, f, m) == EndsWithChar(m.attrs_str, "/")

\* the self-closing test of each file
IsSelfClosing(i, f, m) ==
    IF i = "scenarios"
    THEN EndsWithChar(rstrip(m.attrs_str), "/") \/ m.tag_name \in {t_divider, t_spacer, t_br}
    ELSE EndsWithChar(m.attrs_str, "/") \/ f.content[m.tag_start + m.mlen] = "/"

\* result.append(render_widget(tag_name, attrs, inner)); pos = end_pos
\* f is the calling frame, its text already flushed
Dispatch(f, tag_start, mlen, tag_name, attrs_str, inner, end_pos) ==
    LET attrs == parse_attrs(attrs_str)
    IN  IF tag_name \in ContainerTags
        THEN /\ stack' = SetTop([f EXCEPT !.pc = "call", !.tag_start = tag_start, !.mlen = mlen, !.tag_name = tag_name,
                                          !.attrs_str = attrs_str, !.inner = inner, !.end_pos = end_pos])
                         \o <<NewFrame(inner)>>
             /\ UNCHANGED <<impl, status, exc, output>>
        ELSE LET r == RenderLeaf(impl, tag_name, attrs, inner)
             IN  IF r.ok
                 THEN /\ stack' = SetTop([f EXCEPT !.result = Append(@, r.html),
                                                   !.log = Append(@, LogEntry("widget", tag_start, tag_start + mlen, end_pos, tag_name, attrs, inner)),
                                                   !.pos = end_pos,
                                                   !.pc = "outer"])
                      /\ UNCHANGED <<impl, status, exc, output>>
                 ELSE /\ status' = "raised"
                      /\ exc' = r.exc
                      /\ UNCHANGED <<impl, stack, output>>

\* an unmatched tag after which the cursor stays at the tag
EmitLiteralStay(f, tag_start, mlen) ==
    [f EXCEPT !.result = Append(@, <<T(escape(Slice(f.content, tag_start, tag_start + mlen)))>>),
              !.log = Append(@, LogEntry("literal", tag_start, tag_start + mlen, tag_start + mlen, <<>>, <<>>, <<>>)),
              !.pos = tag_start,
              !.pc = "outer"]

\* result.append(escape(match.group(0))); pos = tag_start + len(match.group(0))
EmitLiteral(f, tag_start, mlen) ==
    [f EXCEPT !.result = Append(@, <<T(escape(Slice(f.content, tag_start, tag_start + mlen)))>>),
              !.log = Append(@, LogEntry("literal", tag_start, tag_start + mlen, tag_start + mlen, <<>>, <<>>, <<>>)),
              !.pos = tag_start + mlen,
              !.pc = "outer"]

Running == status = "running" /\ Top.pc = "outer"

\* while pos < len(content) is false: the loop is left
LoopExit ==
    /\ Running
    /\ Top.pos >= Len(Top.content)
    /\ stack' = SetTop([Top EXCEPT !.pc = "ret"])
    /\ UNCHANGED <<impl, status, exc, output>>

\* if not match: flush the remaining text, break
NoMatch ==
    /\ Running
    /\ Top.pos < Len(Top.content)
    /\ ~TagSearch(Top.content, Top.pos).found
    /\ stack' = SetTop([FlushText(Top, Len(Top.content)) EXCEPT !.pc = "ret"])
    /\ UNCHANGED <<impl, status, exc, output>>

\* return ''.join(result), from the outermost call
ReturnTop ==
    /\ status = "running"
    /\ Top.pc = "ret"
    /\ Len(stack) = 1
    /\ status' = "returned"
    /\ output' = Flatten(Top.result)
    /\ UNCHANGED <<impl, stack, exc>>

\* return ''.join(result), into the container widget that called render_aml:
\* render_widget wraps it and the caller appends the fragment
ReturnInner ==
    /\ status = "running"
    /\ Top.pc = "ret"
    /\ Len(stack) > 1
    /\ LET p == stack[Len(stack) - 1]
           attrs == parse_attrs(p.attrs_str)
           frag == RenderContainer(p.tag_name, attrs, Flatten(Top.result))
           q == [p EXCEPT !.result = Append(@, frag),
                          !.log = Append(@, LogEntry("widget", p.tag_start, p.tag_start + p.mlen, p.end_pos,
                                                     p.tag_name, attrs, p.inner)),
                          !.pos = p.end_pos,
                          !.pc = "outer"]
       IN  stack' = SubSeq(stack, 1, Len(stack) - 2) \o <<q>>
    /\ UNCHANGED <<impl, status, exc, output>>

\* a self-closing tag: flush the text before it, render it with empty content
SelfClosing ==
    /\ Running
    /\ Top.pos < Len(Top.content)
    /\ LET m == TagSearch(Top.content, Top.pos)
       IN  /\ m.found
           /\ IsSelfClosing(impl, Top, m)
           /\ Dispatch(FlushText(Top, m.tag_start), m.tag_start, m.mlen, m.tag_name, m.attrs_str, <<>>,
                       m.tag_start + m.mlen)

\* test_aml_scenarios.py, a paired tag: flush the text before it and start
\* the span matcher with depth = 1
OpenTag ==
    /\ Running
    /\ impl = "scenarios"
    /\ Top.pos < Len(Top.content)
    /\ Len(Top.result) < MaxResult
    /\ LET m == TagSearch(Top.content, Top.pos)
       IN  /\ m.found
           /\ ~IsSelfClosing(impl, Top, m)
           /\ stack' = SetTop([FlushText(Top, m.tag_start) EXCEPT
                                  !.pc = "inner", !.tag_start = m.tag_start, !.mlen = m.mlen,
                                  !.tag_name = m.tag_name, !.attrs_str = m.attrs_str,
                                  !.depth = 1, !.search_pos = m.tag_start + m.mlen])
    /\ UNCHANGED <<impl, status, exc, output>>

\* the span matcher of test_aml_scenarios.py
Matching == status = "running" /\ Top.pc = "inner"
InnerCond == Top.search_pos < Len(Top.content) /\ Top.depth > 0
close_tag(f) == <<"<", "/">> \o f.tag_name \o <<">">>
\* remaining.lower().find(...), relative to search_pos
RelFind(f, sub) == LowerFind(SliceFrom(f.content, f.search_pos), sub, 0)
next_open(f) == RelFind(f, <<"<">> \o f.tag_name)
next_close(f) == RelFind(f, close_tag(f))
\* if next_open != -1 and next_open < next_close
OpenFirst(f) == next_open(f) # -1 /\ next_open(f) < next_close(f)

\* if next_close == -1: break, which skips the else clause of the while
InnerNoClose ==
    /\ Matching
    /\ InnerCond
    /\ next_close(Top) = -1
    /\ stack' = SetTop([Top EXCEPT !.pc = "outer"])
    /\ UNCHANGED <<impl, status, exc, output>>

\* an opening occurrence comes first: depth += 1
InnerOpen ==
    /\ Matching
    /\ InnerCond
    /\ next_close(Top) # -1
    /\ OpenFirst(Top)
    /\ stack' = SetTop([Top EXCEPT !.depth = @ + 1,
                                   !.search_pos = @ + next_open(Top) + Len(Top.tag_name) + 1])
    /\ UNCHANGED <<impl, status, exc, output>>

\* a closing occurrence comes first and depth stays above 0
InnerClose ==
    /\ Matching
    /\ InnerCond
    /\ next_close(Top) # -1
    /\ ~OpenFirst(Top)
    /\ Top.depth - 1 # 0
    /\ stack' = SetTop([Top EXCEPT !.depth = @ - 1,
                                   !.search_pos = @ + next_close(Top) + Len(close_tag(Top))])
    /\ UNCHANGED <<impl, status, exc, output>>

\* a closing occurrence comes first and depth reaches 0: render the widget
InnerMatched ==
    /\ Matching
    /\ InnerCond
    /\ next_close(Top) # -1
    /\ ~OpenFirst(Top)
    /\ Top.depth - 1 = 0
    /\ LET inner_start == Top.tag_start + Top.mlen
           close_at == Top.search_pos + next_close(Top)
       IN  Dispatch([Top EXCEPT !.depth = 0], Top.tag_start, Top.mlen, Top.tag_name, Top.attrs_str,
                    Slice(Top.content, inner_start, close_at), close_at + Len(close_tag(Top)))

\* the while condition is false: the else clause emits the opening tag as text
InnerExhausted ==
    /\ Matching
    /\ ~InnerCond
    /\ stack' = SetTop(EmitLiteral(Top, Top.tag_start, Top.mlen))
    /\ UNCHANGED <<impl, status, exc, output>>

\* test_aml.py, a paired tag whose closing tag is found
AmlMatched ==
    /\ Running
    /\ impl = "aml"
    /\ Top.pos < Len(Top.content)
    /\ LET m == TagSearch(Top.content, Top.pos)
           close_pos == LowerFind(Top.content, <<"<", "/">> \o m.tag_name \o <<">">>, m.tag_start + m.mlen)
       IN  /\ m.found
           /\ ~IsSelfClosing(impl, Top, m)
           /\ close_pos # -1
           /\ Dispatch(FlushText(Top, m.tag_start), m.tag_start, m.mlen, m.tag_name, m.attrs_str,
                       Slice(Top.content, m.tag_start + m.mlen, close_pos),
                       close_pos + Len(m.tag_name) + 3)

\* test_aml.py, a paired tag with no closing tag: the opening tag as text
AmlUnmatched ==
    /\ Running
    /\ impl = "aml"
    /\ Top.pos < Len(Top.content)
    /\ LET m == TagSearch(Top.content, Top.pos)
           close_pos == LowerFind(Top.content, <<"<", "/">> \o m.tag_name \o <<">">>, m.tag_start + m.mlen)
       IN  /\ m.found
           /\ ~IsSelfClosing(impl, Top, m)
           /\ close_pos = -1
           /\ stack' = SetTop(EmitLiteral(FlushText(Top, m.tag_start), m.tag_start, m.mlen))
    /\ UNCHANGED <<impl, status, exc, output>>

Next ==
    \/ LoopExit
    \/ NoMatch
    \/ ReturnTop
    \/ ReturnInner
    \/ SelfClosing
    \/ OpenTag
    \/ InnerNoClose
    \/ InnerOpen
    \/ InnerClose
    \/ InnerMatched
    \/ InnerExhausted
    \/ AmlMatched
    \/ AmlUnmatched

Spec == Init /\ [][Next]_vars

\* ------------------------------------------------------------------------
\* Properties
\* ------------------------------------------------------------------------
Frames == {stack[k] : k \in 1..Len(stack)}
\* the input of the outermost call
Input == stack[1].content
Returned == status = "returned"

\* C1: render_aml of test_aml_scenarios.py terminates on every input.  Each
\* iteration of the outer loop is a function of content and pos alone and
\* pos never exceeds len(content), so the loop exits on every input exactly
\* when every iteration that comes back to the head of the loop has moved
\* the cursor forward; an iteration that leaves pos where it was repeats
\* for ever.
C1_Terminates ==
    [][(impl = "scenarios") =>
          \A k \in 1..Len(stack) :
              (k <= Len(stack') /\ stack'[k] # stack[k] /\ stack'[k].pc = "outer")
              => stack'[k].pos > stack[k].pos]_vars

\* the opening tag the span matcher works on has no closing tag after it
Unclosed(f) == CaseFind(f.content, close_tag(f), f.tag_start + f.mlen) = -1

\* C2: in test_aml_scenarios.py, when the span matcher gives up on an opening
\* tag that has no closing tag after it, exactly the escaped text of the
\* opening tag is appended, no widget is rendered, and the cursor is just
\* past the opening tag's '>'.
C2_UnmatchedIsLiteral ==
    [][(impl = "scenarios" /\ Matching /\ Unclosed(Top) /\ Top'.pc # "inner")
       => /\ Len(stack') = Len(stack)
          /\ Top'.pc = "outer"
          /\ Top'.result = Append(Top.result,
                                  <<T(escape(Slice(Top.content, Top.tag_start, Top.tag_start + Top.mlen)))>>)
          /\ Top'.pos = Top.tag_start + Top.mlen]_vars

\* the scenarios composer: a paired opening tag of exactly this name starts at offset i
PairedOpenAt(s, name, i) ==
    /\ TagMatchAt(s, i)
    /\ LET m == TagSearch(s, i)
       IN  m.tag_name = name /\ ~IsSelfClosing("scenarios", [content |-> s], m)

\* the offsets from a on where a closing tag of this name starts, and
\* those where a paired opening tag of this name starts
ClosesFrom(s, name, a) == {i \in a..(Len(s) - 1) : LowerStartsAt(s, CloseText(name), i)}
OpensFrom(s, name, a) == {i \in a..(Len(s) - 1) : PairedOpenAt(s, name, i)}

\* the depth counter of the claim after the closing tag at offset c: 1 at
\* offset a, +1 per opening tag and -1 per closing tag met on the way
DepthAfter(opens, closes, c) ==
    1 + Cardinality({o \in opens : o < c}) - Cardinality({x \in closes : x <= c})

\* the offset of the closing tag at which the depth first returns to 0, or -1
RefClose(opens, closes) ==
    IF \E c \in closes : DepthAfter(opens, closes, c) = 0
    THEN Min({c \in closes : DepthAfter(opens, closes, c) = 0})
    ELSE -1

\* between offsets a and b, every occurrence of '<' + name starts a paired
\* opening tag of that name
ProperlyNested(s, name, a, b) ==
    \A i \in a..(b - 1) : LowerStartsAt(s, <<"<">> \o name, i) => PairedOpenAt(s, name, i)

\* the paired tags a call has matched so far: those it rendered and the one
\* whose content it is rendering now
Accepted(f) ==
    {[name |-> f.log[i].name, open_end |-> f.log[i].open_end, stop |-> f.log[i].stop, inner |-> f.log[i].inner] :
        i \in {j \in 1..Len(f.log) : f.log[j].kind = "widget" /\ f.log[j].stop > f.log[j].open_end}}
    \cup (IF f.pc = "call" /\ f.end_pos > f.tag_start + f.mlen
          THEN {[name |-> f.tag_name, open_end |-> f.tag_start + f.mlen, stop |-> f.end_pos, inner |-> f.inner]}
          ELSE {})

\* the accepted tag a of the call f ends at the closing tag that the depth
\* counter selects, when the content up to there is properly nested
MatchesDepthCounter(f, a, close) ==
    ProperlyNested(f.content, a.name, a.open_end, IF close = -1 THEN Len(f.content) ELSE close)
    => /\ a.stop = close + Len(CloseText(a.name))
       /\ a.inner = Slice(f.content, a.open_end, close)

NestedCards == OpenText(t_card) \o OpenText(t_card) \o <<"a">> \o CloseText(t_card) \o CloseText(t_card)

NestedCardsHtml ==
    <<M("<div class=\"trait-card\">"), M("<div class=\"trait-card-content\">"),
      M("<div class=\"trait-card\">"), M("<div class=\"trait-card-content\">"),
      M("<div class=\"trait-text-content\"><p>"), T(<<"a">>), M("</p></div>"),
      M("</div></div>"), M("</div></div>")>>

\* C3: in test_aml_scenarios.py, for a paired tag whose content holds
\* properly nested paired tags of the same name, the accepted closing tag is
\* the one where a depth counter (1 at the start, +1 per same-named opening
\* tag, -1 per same-named closing tag) first returns to 0, and the widget's
\* content is the text between the opening tag's '>' and that closing tag;
\* a card in a card renders as a card wrapper inside the outer card's content.
C3_DepthMatch ==
    (impl = "scenarios") =>
        /\ \A f \in Frames : \A a \in Accepted(f) :
              MatchesDepthCounter(f, a, RefClose(OpensFrom(f.content, a.name, a.open_end),
                                                 ClosesFrom(f.content, a.name, a.open_end)))
        /\ (Returned /\ Input = NestedCards) => output = NestedCardsHtml

\* a card in a card has been rendered
C3_Witness ==
    /\ impl = "scenarios"
    /\ Returned
    /\ Input = NestedCards
    /\ \E a \in Accepted(stack[1]) : a.inner = OpenText(t_card) \o <<"a">> \o CloseText(t_card)

\* text in which no reserved character is left raw: no '<', '>', '"' or "'",
\* and every '&' starts one of the five entities
IsEscaped(s) ==
    \A i \in 1..Len(s) :
        /\ s[i] \notin {"<", ">", "\"", "'"}
        /\ s[i] = "&" => \E e \in {amp_entity, lt_entity, gt_entity, quot_entity, apos_entity} : StartsAt(s, e, i - 1)

\* C4: every piece of text from the input that reaches the output of
\* render_aml (free text, content of leaf widgets, attribute values shown as
\* text) has been escaped: the output holds no raw '<', '>', '&', '"' or "'"
\* that comes from the input.
C4_AllTextEscaped ==
    Returned => \A i \in 1..Len(output) : output[i].k = "t" => IsEscaped(output[i].s)

\* the calls of render_aml that have left their loop
Finished == {f \in Frames : f.pc = "ret"}

FileA == SelfClosed(t_file, Attr(a_name, <<"a">>))
TextFileText == <<"a">> \o FileA \o <<"a">>
TextFileTextHtml ==
    <<M("<div class=\"trait-text-content\"><p>"), T(<<"a">>), M("</p></div>"),
      M("<span class=\"trait-file\">/"), T(<<"a">>), M("</span>"),
      M("<div class=\"trait-text-content\"><p>"), T(<<"a">>), M("</p></div>")>>

\* the fragment a text run, an unmatched tag or a leaf widget stands for;
\* of a container, its opening markup
IsFragmentOf(frag, e, f) ==
    CASE e.kind = "text" -> frag = Paragraph(strip(Slice(f.content, e.start, e.stop)))
      [] e.kind = "literal" -> frag = <<T(escape(Slice(f.content, e.start, e.stop)))>>
      [] e.kind = "widget" /\ e.name \in ContainerTags -> Head(frag) = Head(RenderContainer(e.name, e.attrs, <<>>))
      [] OTHER -> frag = RenderLeaf(impl, e.name, e.attrs, e.inner).html

\* C5: a call of render_aml that has left its loop holds one fragment per
\* text run and per tag it met, each for a stretch of the input that lies
\* after the stretch of the fragment before it, so the fragments are in
\* source order and no text run or tag has more than one; the output is
\* their concatenation in that order; text, a file tag and text give a
\* paragraph, the file widget and a paragraph.
C5_SourceOrder ==
    /\ \A f \in Finished :
          /\ Len(f.result) = Len(f.log)
          /\ \A i \in 1..Len(f.log) :
                /\ f.log[i].start < f.log[i].stop
                /\ i > 1 => f.log[i - 1].stop <= f.log[i].start
                /\ IsFragmentOf(f.result[i], f.log[i], f)
    /\ Returned => output = Flatten(stack[1].result)
    /\ (Returned /\ Input = TextFileText) => output = TextFileTextHtml

\* text, a tag and text have been rendered
C5_Witness == Returned /\ Input = TextFileText /\ Len(stack[1].result) = 3

\* the offsets of f.content inside a tag that the call consumed
TagOffsets(f) ==
    {o \in 0..(Len(f.content) - 1) :
        \E i \in 1..Len(f.log) : f.log[i].kind # "text" /\ f.log[i].start <= o /\ o < f.log[i].stop}

\* offset a starts a maximal run of f.content outside the tags
RunStart(f, tags, a) == a \notin tags /\ (a = 0 \/ (a - 1) \in tags)
\* the offset after the end of the run that starts at a
RunEnd(f, tags, a) == Min({x \in (a + 1)..Len(f.content) : x = Len(f.content) \/ x \in tags})

\* the fragments of the call that start inside the run [a, b)
FragmentsIn(f, a, b) == {i \in 1..Len(f.log) : a <= f.log[i].start /\ f.log[i].start < b}

\* the run [a, b) is omitted when blank and otherwise one paragraph
RunKept(f, a, b) ==
    IF strip(Slice(f.content, a, b)) = <<>>
    THEN FragmentsIn(f, a, b) = {}
    ELSE \E i \in 1..Len(f.log) :
            /\ FragmentsIn(f, a, b) = {i}
            /\ f.log[i].kind = "text"
            /\ f.result[i] = <<M("<div class=\"trait-text-content\"><p>"),
                               T(escape(strip(Slice(f.content, a, b)))), M("</p></div>")>>

\* the stretch of f.content that the call consumed for the entry e is a tag:
\* it ends inside the content, with the '>' of the tag
WholeTag(f, e) == e.stop <= Len(f.content) /\ f.content[e.stop] = ">"

\* C6: in every call of render_aml (top level and inside containers) that
\* has left its loop, what the call consumed as a tag is a tag and no text
\* next to it, and each maximal run of text before, between or after the
\* consumed tags is omitted when it is whitespace-only and otherwise stands
\* in the result as exactly one paragraph of its trimmed, escaped text.
C6_TextRunsKept ==
    \A f \in Finished :
        LET tags == TagOffsets(f)
        IN  /\ \A i \in 1..Len(f.log) : f.log[i].kind # "text" => WholeTag(f, f.log[i])
            /\ \A a \in 0..(Len(f.content) - 1) :
                  RunStart(f, tags, a) => RunKept(f, a, RunEnd(f, tags, a))

\* a call inside a container has kept the text run that lies before a tag
C6_Witness ==
    /\ Len(stack) > 1
    /\ Top \in Finished
    /\ TagOffsets(Top) # {}
    /\ RunStart(Top, TagOffsets(Top), 0)
    /\ strip(Slice(Top.content, 0, RunEnd(Top, TagOffsets(Top), 0))) # <<>>

\* the image of one character under escaping
Entity(c) ==
    CASE c = "&" -> <<"&", "a", "m", "p", ";">>
      [] c = "<" -> <<"&", "l", "t", ";">>
      [] c = ">" -> <<"&", "g", "t", ";">>
      [] c = "\"" -> <<"&", "q", "u", "o", "t", ";">>
      [] c = "'" -> <<"&", "#", "x", "2", "7", ";">>
      [] OTHER -> <<c>>
EscapedOnce(s) == Flatten([i \in 1..Len(s) |-> Entity(s[i])])

NoTag(s) == ~TagSearch(s, 0).found

\* C7: for an input without a trait tag render_aml returns; the output is
\* empty when the input is empty or whitespace-only, and otherwise one
\* paragraph of the trimmed input with each reserved character escaped once.
C7_PlainText ==
    NoTag(Input) =>
        /\ status # "raised"
        /\ Returned =>
              output = IF strip(Input) = <<>> THEN <<>>
                       ELSE <<M("<div class=\"trait-text-content\"><p>"), T(EscapedOnce(strip(Input))),
                              M("</p></div>")>>

\* text with blanks around it and a reserved character in it has been rendered
C7_Witness ==
    /\ Returned
    /\ NoTag(Input)
    /\ strip(Input) # Input
    /\ \E i \in 1..Len(Input) : Input[i] \in {"&", "<", ">", "\"", "'"}

\* C8: a progress tag whose value or max is not a decimal integer, or a chart
\* data child whose value is not one, is rendered with a fallback number:
\* render_aml never ends in the ValueError of int().
C8_NumberFallback == ~(status = "raised" /\ exc = "ValueError")

\* the first tag of the input has this name
FirstTagIs(name) == TagSearch(Input, 0).found /\ TagSearch(Input, 0).tag_name = name

\* the k-th least element of a set of numbers
Nth(S, k) == CHOOSE p \in S : Cardinality({q \in S : q < p}) = k - 1

\* the kinds of the command and output children of a terminal, in document order
DocLines(s) ==
    LET at == {i \in 0..(Len(s) - 1) : StartsAt(s, <<"<">> \o t_command, i) \/ StartsAt(s, <<"<">> \o t_output, i)}
    IN  [k \in 1..Cardinality(at) |->
            IF StartsAt(s, <<"<">> \o t_command, Nth(at, k)) THEN "command" ELSE "output"]

\* the kinds of the lines of a rendered terminal, in output order
OutLines(pieces) ==
    LET at == {i \in 1..Len(pieces) : pieces[i] \in {M("<div class=\"trait-command\">"),
                                                      M("<div class=\"trait-output trait-output-")}}
    IN  [k \in 1..Cardinality(at) |->
            IF pieces[Nth(at, k)] = M("<div class=\"trait-command\">") THEN "command" ELSE "output"]

\* C9: the lines of a terminal widget are the command and output children in
\* document order, also when an output precedes a later command.
C9_TerminalOrder ==
    (Returned /\ FirstTagIs(t_terminal)) => OutLines(output) = DocLines(Input)

HeaderRowOpen == <<"<">> \o t_row \o Attr(a_header, s_true) \o <<">">>
DataRowOpen == OpenText(t_row)

\* the one-cell rows of a table in document order: whether the row is marked
\* as header, and the text of its cell
RowsOf(s) ==
    LET h == HeaderRowOpen \o OpenText(t_cell)
        d == DataRowOpen \o OpenText(t_cell)
        at == {i \in 0..(Len(s) - 1) : StartsAt(s, h, i) \/ StartsAt(s, d, i)}
    IN  [k \in 1..Cardinality(at) |->
            IF StartsAt(s, h, Nth(at, k))
            THEN [header |-> TRUE, text |-> <<s[Nth(at, k) + Len(h) + 1]>>]
            ELSE [header |-> FALSE, text |-> <<s[Nth(at, k) + Len(d) + 1]>>]]

HeaderRows(s) == SelectSeq(RowsOf(s), LAMBDA r : r.header)
DataRows(s) == SelectSeq(RowsOf(s), LAMBDA r : ~r.header)

\* one header row of header cells, then the data rows in document order
TableHtml(s) ==
    <<M("<table class=\"trait-table\"><tbody>"),
      M("<tr class=\"trait-row trait-row-header\">"),
      M("<th class=\"trait-cell\">"), T(HeaderRows(s)[1].text), M("</th>"), M("</tr>")>>
    \o Flatten([i \in 1..Len(DataRows(s)) |->
          <<M("<tr class=\"trait-row\">"),
            M("<td class=\"trait-cell\">"), T(DataRows(s)[i].text), M("</td>"), M("</tr>")>>])
    \o <<M("</tbody></table>")>>

\* C10: a table with exactly one row marked header="true" and two data rows
\* renders as one header row of header cells followed by exactly the two
\* data rows, as body rows in document order.
C10_TableRows ==
    (Returned /\ FirstTagIs(t_table) /\ Len(HeaderRows(Input)) = 1 /\ Len(DataRows(Input)) = 2)
    => output = TableHtml(Input)

\* the attributes of the first tag of the input
FirstAttrs == parse_attrs(TagSearch(Input, 0).attrs_str)
\* int() of an attribute of the first tag, with the default of the widget
FirstInt(name, default) ==
    IF name \in DOMAIN FirstAttrs THEN PyInt(FirstAttrs[name]) ELSE [ok |-> TRUE, val |-> default]
\* the numbers interpolated into the output
NumberPieces == {i \in 1..Len(output) : output[i].k = "n"}

\* C11: a returned progress tag with integer value (default 0) and integer
\* max >= 1 (default 100) shows exactly one percentage; it is 100 when
\* value > max, 0 when value < 0, 100 * value / max in between, and always
\* within [0, 100].
C11_ProgressClamped ==
    (Returned /\ FirstTagIs(t_progress)) =>
        LET value == FirstInt(a_value, 0)
            max_val == FirstInt(a_max, 100)
        IN  (value.ok /\ max_val.ok /\ max_val.val >= 1) =>
                \E i \in NumberPieces :
                    /\ NumberPieces = {i}
                    /\ output[i].den > 0
                    /\ 0 <= output[i].num
                    /\ output[i].num <= 100 * output[i].den
                    /\ value.val > max_val.val => output[i].num = 100 * output[i].den
                    /\ value.val < 0 => output[i].num = 0
                    /\ (0 <= value.val /\ value.val <= max_val.val) =>
                            output[i].num * max_val.val = 100 * value.val * output[i].den

\* value 250 of max 10 has been rendered as 100, and value -3 would be 0
C11_Witness ==
    /\ Returned
    /\ Input = SelfClosed(t_progress, Attr(a_value, <<"2", "5", "0">>) \o Attr(a_max, <<"1", "0">>)) \o <<"a">>
    /\ \E i \in NumberPieces : output[i].num = 100 /\ output[i].den = 1

\* the tags of s are card tags only, each opening tag paired and each closing
\* tag closing an open card: the cards of s are well nested
WellNestedCards(s) ==
    LET opens == OpensFrom(s, t_card, 0)
        closes == ClosesFrom(s, t_card, 0)
    IN  /\ \A i \in 0..(Len(s) - 1) : TagMatchAt(s, i) => i \in opens
        /\ Cardinality(opens) = Cardinality(closes)
        /\ \A c \in closes : Cardinality({o \in opens : o < c}) >= Cardinality({x \in closes : x <= c})

\* the card wrappers in the output
CardWrappers == {i \in 1..Len(output) : output[i] = M("<div class=\"trait-card\">")}

\* only the rule of a container is waiting for a call of render_aml
OnlyContainersCall ==
    \A k \in 1..(Len(stack) - 1) : stack[k].pc = "call" /\ stack[k].tag_name \in ContainerTags

\* every card of a well nested input has its wrapper in the output
NestedCardsRendered ==
    (Returned /\ WellNestedCards(Input)) =>
        Cardinality(CardWrappers) = Cardinality(OpensFrom(Input, t_card, 0))

\* C12: only container widgets (card, grid, filetree, folder) call
\* render_aml on their content, and a widget tag inside a container, at any
\* depth and also when it is the same container tag, is rendered as a widget
\* inside the wrapper: every card of well nested cards gets its wrapper.
C12_ContainersRecurse == OnlyContainersCall /\ NestedCardsRendered

\* the names in the table of render_widget
WidgetTable(i) ==
    {t_button, t_code, t_coderef, t_diff, t_file, t_list, t_todo, t_table, t_badge, t_tag, t_progress,
     t_metric, t_chart, t_barchart, t_terminal, t_search, t_breadcrumb, t_timestamp, t_link,
     t_divider, t_spacer, t_br}
    \cup AlertTags \cup ContainerTags \cup (IF i = "aml" THEN {t_item} ELSE {})

\* the fragment that names a tag as unknown
UnknownFragment(name) == <<M("<span style=\"color: #d95555;\">Unknown: "), T(name), M("</span>")>>

\* the paragraph of a text run, nothing for an empty one
TextHtml(text) ==
    IF text = <<>> THEN <<>>
    ELSE <<M("<div class=\"trait-text-content\"><p>"), T(text), M("</p></div>")>>

\* C13: a dispatched tag (self-closing, or paired with its closing tag) whose
\* name is not in the widget table is rendered as the fragment "Unknown: "
\* followed by its name; no exception is raised for such an input, and the
\* text before and after the tag is rendered as well.
C13_UnknownVisible ==
    /\ \A f \in Frames : \A i \in 1..Len(f.log) :
          (f.log[i].kind = "widget" /\ f.log[i].name \notin WidgetTable(impl))
          => f.result[i] = UnknownFragment(f.log[i].name)
    /\ Input \in UnknownInputs => status # "raised"
    /\ (Returned /\ Input \in UnknownInputs) =>
          \E pre \in {<<>>, <<"a">>}, u \in UnknownElems, post \in {<<>>, <<"a">>} :
              /\ Input = pre \o u \o post
              /\ output = TextHtml(pre) \o UnknownFragment(TagSearch(u, 0).tag_name) \o TextHtml(post)

\* an unknown paired tag between two text runs has been rendered
C13_Witness ==
    /\ Returned
    /\ Input = <<"a">> \o Elem(t_zzz, <<>>, <<"b">>) \o <<"a">>
    /\ \E i \in 1..Len(output) : output[i] = T(t_zzz)
    /\ output[Len(output)] = M("</p></div>")

\* the last character of s that is not whitespace is a slash
SlashLast(s) ==
    \E i \in 1..Len(s) : s[i] = "/" /\ \A j \in (i + 1)..Len(s) : s[j] \in Whitespace

VoidTags == {t_divider, t_spacer, t_br}

\* the step dispatches the tag m as self-closing: the widget is rendered
\* with empty content, or its container rule calls render_aml on empty
\* content, or its rule raises; the cursor goes just past the '>'
SelfClosingStep(m) ==
    LET k == Len(stack)
        past == m.tag_start + m.mlen
    IN  \/ status' = "raised"
        \/ /\ Len(stack') = k
           /\ stack'[k].pc = "outer"
           /\ stack'[k].pos = past
           /\ LET e == Last(stack'[k].log)
              IN  e.kind = "widget" /\ e.name = m.tag_name /\ e.inner = <<>> /\ e.start = m.tag_start /\ e.stop = past
        \/ /\ Len(stack') = k + 1
           /\ stack'[k].pc = "call"
           /\ stack'[k].tag_name = m.tag_name
           /\ stack'[k].inner = <<>>
           /\ stack'[k].end_pos = past
           /\ stack'[k + 1].content = <<>>

\* the step starts the search for the closing tag of m
PairedStep(m) ==
    LET k == Len(stack)
    IN  /\ Len(stack') = k
        /\ stack'[k].pc = "inner"
        /\ stack'[k].depth = 1
        /\ stack'[k].search_pos = m.tag_start + m.mlen

\* C14: in test_aml_scenarios.py, the step that handles the next opening
\* tag dispatches it as self-closing (empty content, no search for a closing
\* tag, cursor just past its '>') if and only if its attribute text without
\* trailing whitespace ends in '/' or its name is trait:divider,
\* trait:spacer or trait:br; otherwise it starts the span matcher.
C14_SelfClosingTest ==
    [][(impl = "scenarios" /\ Running /\ Top.pos < Len(Top.content) /\ TagSearch(Top.content, Top.pos).found)
       => LET m == TagSearch(Top.content, Top.pos)
          IN  IF SlashLast(m.attrs_str) \/ m.tag_name \in VoidTags
              THEN SelfClosingStep(m)
              ELSE PairedStep(m)]_vars

\* a tag that ends in a slash and a blank, and a void tag without a slash
\* that is followed by text and a closing tag, have been rendered
C14_Witness ==
    /\ impl = "scenarios"
    /\ Returned
    /\ \/ /\ Input = <<"<">> \o t_file \o Attr(a_name, <<"a">>) \o <<"/", " ", ">", "a">>
          /\ output = <<M("<span class=\"trait-file\">/"), T(<<"a">>), M("</span>")>> \o TextHtml(<<"a">>)
       \/ /\ Input = Elem(t_br, <<>>, <<"a">>)
          /\ output[1] = M("<br>")

\* C15: the chain of recursive render_aml calls made for nested containers
\* is never longer than a fixed cap, however deeply the input nests them.
C15_DepthCapped == Len(stack) - 1 <= DepthCap

\* the offsets of the item children in s
ItemStarts(s) == {i \in 0..(Len(s) - 1) : StartsAt(s, k_item_open, i)}
\* the item that starts at offset i has done="true"
ItemDone(s, i) ==
    LET a == parse_attrs(TagSearch(s, i).attrs_str)
    IN  a_done \in DOMAIN a /\ a[a_done] = s_true
\* the text of the item that starts at offset i
ItemText(s, i) ==
    LET from == i + TagSearch(s, i).mlen
    IN  Slice(s, from, Find(s, k_item_close, from))

DoneEntry == M("<li class=\"trait-todo-item trait-todo-done\"><input type=\"checkbox\" checked disabled> <span>")
OpenEntry == M("<li class=\"trait-todo-item \"><input type=\"checkbox\"  disabled> <span>")
\* the list entries in the output
TodoEntries == {j \in 1..Len(output) : output[j] \in {DoneEntry, OpenEntry}}

\* C16: a returned todo widget shows one list entry per item child, in
\* document order; the entry is styled done and checked if and only if the
\* item's done attribute is "true", and an item without the attribute is
\* shown as not done.
C16_TodoItems ==
    (Returned /\ FirstTagIs(t_todo)) =>
        LET items == ItemStarts(Input)
            entries == TodoEntries
        IN  /\ Cardinality(entries) = Cardinality(items)
            /\ \A n \in 1..Cardinality(items) :
                  LET i == Nth(items, n)
                      j == Nth(entries, n)
                  IN  /\ output[j] = DoneEntry <=> ItemDone(Input, i)
                      /\ output[j + 1] = T(escape(strip(ItemText(Input, i))))

\* the widgets a call has rendered, each with the attribute text of its tag
RenderedAttrs(f) ==
    {[attr_str |-> TagSearch(f.content, f.log[i].start).attrs_str, attrs |-> f.log[i].attrs] :
        i \in {j \in 1..Len(f.log) : f.log[j].kind = "widget"}}

ReservedAt(s, i) ==
    /\ i + 7 < Len(s)
    /\ IgnoreCaseAt(s, <<"<", "t", "r", "a", "i", "t", ":">>, i)
    /\ IsLetter(s[i + 8])

\* the offsets at which a call has handled a tag: rendered, emitted as an
\* unmatched tag, or being matched or rendered now
HandledAt(f) ==
    {f.log[i].start : i \in {j \in 1..Len(f.log) : f.log[j].kind # "text"}}
    \cup (IF f.pc \in {"inner", "call"} THEN {f.tag_start} ELSE {})

LongerNameAt(s, name, i) ==
    TagMatchAt(s, i) /\ Len(TagSearch(s, i).tag_name) > Len(name)

\* between offsets a and b, every occurrence of '<' + name starts a paired
\* opening tag of that name or a tag with a longer name
OnlyLongerNames(s, name, a, b) ==
    \A i \in a..(b - 1) :
        LowerStartsAt(s, <<"<">> \o name, i) => (PairedOpenAt(s, name, i) \/ LongerNameAt(s, name, i))

\* the opening tags a call has emitted as unmatched
Unmatched(f) ==
    {[name |-> TagSearch(f.content, f.log[i].start).tag_name, open_end |-> f.log[i].open_end] :
        i \in {j \in 1..Len(f.log) : f.log[j].kind = "literal"}}

\* the closing tag that a depth counter selects for the tag of this name
\* whose content starts at offset a, counting opening tags of exactly this name
ExactClose(s, name, a) == RefClose(OpensFrom(s, name, a), ClosesFrom(s, name, a))

\* C19: in test_aml_scenarios.py the span matcher counts only opening tags
\* of exactly the matched name: where the content holds tags with longer
\* names that start with it (trait:coderef in trait:code), a tag is matched
\* to the closing tag at which the exact-name depth counter returns to 0,
\* and it is unmatched only if that counter never returns to 0.
C19_ExactNameDepth ==
    (impl = "scenarios") =>
        \A f \in Frames :
            /\ \A a \in Accepted(f) :
                  LET close == ExactClose(f.content, a.name, a.open_end)
                  IN  OnlyLongerNames(f.content, a.name, a.open_end, IF close = -1 THEN Len(f.content) ELSE close)
                      => /\ a.stop = close + Len(CloseText(a.name))
                         /\ a.inner = Slice(f.content, a.open_end, close)
            /\ \A u \in Unmatched(f) :
                  OnlyLongerNames(f.content, u.name, u.open_end, Len(f.content))
                  => ExactClose(f.content, u.name, u.open_end) = -1

\* the number of double quotes in s from offset a up to offset b
QuotesIn(s, a, b) == Cardinality({j \in a..(b - 1) : s[j + 1] = "\""})

\* the offset after the first '>' from offset i on that is outside double
\* quotes: where the tag that starts at i ends when quoted values are opaque
QuotedTagEnd(s, i) ==
    LET ends == {j \in i..(Len(s) - 1) : s[j + 1] = ">" /\ QuotesIn(s, i, j) % 2 = 0}
    IN  IF ends = {} THEN -1 ELSE Min(ends) + 1

\* offset j lies inside a quoted attribute value of a tag of s
InsideQuotedValue(s, j) ==
    \E i \in 0..(j - 1) :
        /\ ReservedAt(s, i)
        /\ QuotesIn(s, i, i + 1) = 0
        /\ j < QuotedTagEnd(s, i)
        /\ QuotesIn(s, i, j) % 2 = 1

\* the tags a call has handled, each with the offset after its opening tag
HandledTags(f) ==
    {[start |-> f.log[i].start, open_end |-> f.log[i].open_end] :
        i \in {j \in 1..Len(f.log) : f.log[j].kind # "text"}}
    \cup (IF f.pc \in {"inner", "call"}
          THEN {[start |-> f.tag_start, open_end |-> f.tag_start + f.mlen]} ELSE {})

\* C20: quoted attribute values are opaque to the composer: every tag it
\* handles ends at the first '>' outside double quotes (where the quotes of
\* the tag are balanced), and the closing tag it accepts for a paired tag
\* never lies inside a quoted attribute value.
C20_QuotedValuesOpaque ==
    \A f \in Frames :
        /\ \A h \in HandledTags(f) :
              QuotedTagEnd(f.content, h.start) # -1 => h.open_end = QuotedTagEnd(f.content, h.start)
        /\ \A a \in Accepted(f) : ~InsideQuotedValue(f.content, a.stop - Len(CloseText(a.name)))

\* the frames that a step keeps: every call but one that starts or returns
KeptFrames == 1..(IF Len(stack') < Len(stack) THEN Len(stack') ELSE Len(stack))

\* C21: in every render_aml call the cursor pos starts at 0, no step
\* lowers it, it never exceeds len(content), and content is never changed.
C21_CursorMonotone ==
    /\ stack[1].pos = 0
    /\ [][/\ \A k \in KeptFrames :
                /\ stack'[k].content = stack[k].content
                /\ stack'[k].pos >= stack[k].pos
                /\ stack'[k].pos <= Len(stack'[k].content)
          /\ Len(stack') > Len(stack) => stack'[Len(stack')].pos = 0]_vars

\* a call has moved its cursor past text, a widget and an unmatched tag to
\* the end of its content
C21_Witness ==
    /\ Returned
    /\ Len(stack[1].log) = 3
    /\ stack[1].log[3].kind = "literal"
    /\ stack[1].pos = Len(Input)
    /\ stack[1].log[3].stop = stack[1].pos

\* the rows of s without the first row marked as header, in document order
BodyRowsOf(s) ==
    LET rows == RowsOf(s)
        hs == {k \in 1..Len(rows) : rows[k].header}
        first == IF hs = {} THEN 0 ELSE Min(hs)
        keep == {k \in 1..Len(rows) : k # first}
    IN  [n \in 1..Cardinality(keep) |-> rows[Nth(keep, n)].text]

\* the cell texts of the body rows in the output, in order
OutBodyRows ==
    LET at == {j \in 1..Len(output) : output[j] = M("<tr class=\"trait-row\">")}
    IN  [n \in 1..Cardinality(at) |-> output[Nth(at, n) + 2].s]

\* the header rows in the output
OutHeaderRows == {j \in 1..Len(output) : output[j] = M("<tr class=\"trait-row trait-row-header\">")}

\* C22: a returned table of one-cell rows shows the first row marked
\* header="true" as its only header row and every other row, also one whose
\* cell equals the header's and also a second row marked header="true", as
\* a body row exactly once, in document order.
C22_OnlyHeaderOmitted ==
    (Returned /\ Input \in TableInputs) =>
        /\ Cardinality(OutHeaderRows) = (IF HeaderRows(Input) = <<>> THEN 0 ELSE 1)
        /\ OutBodyRows = BodyRowsOf(Input)

\* C23: an attribute written name="v" or name='v', where v does not hold
\* its own delimiter, is mapped to exactly v, also when v holds the other
\* kind of quote (title="it's").
C23_QuoteKinds ==
    Input \in QuotedInputs =>
        \A f \in Frames : \A w \in RenderedAttrs(f) : \A p \in QuotedPairs :
            w.attr_str = QuotedAttr(p) \o <<"/">>
            => (p.name \in DOMAIN w.attrs /\ w.attrs[p.name] = p.val)

\* the data children of s in document order: label, text of the value, int(value)
DataOf(s) ==
    LET at == {i \in 0..(Len(s) - 1) : StartsAt(s, k_data_open, i)}
    IN  [n \in 1..Cardinality(at) |->
            LET a == parse_attrs(TagSearch(s, Nth(at, n)).attrs_str)
            IN  [label |-> a[a_label], value |-> a[a_value], int |-> PyInt(a[a_value])]]

\* where the bars start in the output
OutBars == {j \in 1..Len(output) : output[j] = M("<div class=\"trait-chart-bar\" style=\"height: ")}

\* the height piece h equals the quotient n / d
HeightIs(h, n, d) == h.k = "n" /\ h.den > 0 /\ h.num * d = n * h.den

\* C24: a returned chart whose data children carry integer values with a
\* positive maximum shows one bar per child, in document order; a bar's
\* height is value * scale / maximum (scale 90 in test_aml_scenarios.py,
\* 80 in test_aml.py) or the floor (15, respectively 10) if that is more: the
\* bar of the maximum has the full-scale height and every height lies
\* between the floor and the full-scale height.
C24_BarHeights ==
    (Returned /\ Input \in ChartInputs) =>
        LET data == DataOf(Input)
            vals == {data[n].int.val : n \in 1..Len(data)}
            scale == IF impl = "scenarios" THEN 90 ELSE 80
            floor == IF impl = "scenarios" THEN 15 ELSE 10
        IN  ((data # <<>>) /\ (\A n \in 1..Len(data) : data[n].int.ok) /\ Max(vals) > 0) =>
                /\ Cardinality(OutBars) = Len(data)
                /\ \A n \in 1..Len(data) :
                      LET j == Nth(OutBars, n)
                          h == output[j + 1]
                          v == data[n].int.val
                      IN  /\ output[j + 3] = T(data[n].value)
                          /\ output[j + 5] = T(data[n].label)
                          /\ IF v * scale >= floor * Max(vals)
                             THEN HeightIs(h, v * scale, Max(vals))
                             ELSE HeightIs(h, floor, 1)
                          /\ h.num >= floor * h.den
                          /\ h.num <= scale * h.den
                          /\ v = Max(vals) => h.num = scale * h.den

\* bars of 0 and of 6 have been rendered: the floor and the full scale
C24_Witness ==
    /\ Returned
    /\ Input \in ChartInputs
    /\ Cardinality(OutBars) = 2
    /\ LET lo == output[Nth(OutBars, 1) + 1]
           hi == output[Nth(OutBars, 2) + 1]
       IN  /\ lo.num = BarFloor(impl) * lo.den
           /\ hi.num = BarScale(impl) * hi.den
           /\ output[Nth(OutBars, 1) + 3] = T(<<"0">>)
           /\ output[Nth(OutBars, 2) + 3] = T(<<"6">>)

\* the widgets of a call's log, in order
WidgetLog(f) == SelectSeq(f.log, LAMBDA e : e.kind = "widget")

CardHtml(text) ==
    <<M("<div class=\"trait-card\">"), M("<div class=\"trait-card-content\">")>>
    \o TextHtml(text) \o <<M("</div></div>")>>

\* C25: two sibling paired tags of the same name are rendered by the
\* outermost call as two widgets in source order, the first with the content
\* up to the first closing tag and the second with its own content; for
\* cards the output is the first card's wrapper followed by the second's.
C25_Siblings ==
    (Returned /\ Input \in SiblingInputs) =>
        LET w == WidgetLog(stack[1])
            name == TagSearch(Input, 0).tag_name
            first_close == Find(Input, CloseText(name), 0)
        IN  /\ Len(w) = 2
            /\ w[1].name = name /\ w[2].name = name
            /\ w[1].inner = Slice(Input, Len(name) + 2, first_close) /\ w[2].inner = <<"B">>
            /\ w[1].stop = first_close + Len(CloseText(name))
            /\ w[2].start >= w[1].stop
            /\ w[2].stop = Len(Input)
            /\ Input = Elem(t_card, <<>>, <<"A">>) \o Elem(t_card, <<>>, <<"B">>)
               => output = CardHtml(<<"A">>) \o CardHtml(<<"B">>)

\* two cards, one after the other, have been rendered
C25_Witness ==
    /\ Returned
    /\ Input = Elem(t_card, <<>>, <<"A">>) \o Elem(t_card, <<>>, <<"B">>)
    /\ Len(WidgetLog(stack[1])) = 2
    /\ Len(output) = 12

\* a self-closing tag of exactly this name starts at offset i, outside the
\* quoted attribute values of other tags
SelfClosedAt(s, name, i) ==
    /\ TagMatchAt(s, i)
    /\ LET m == TagSearch(s, i)
       IN  m.tag_name = name /\ SlashLast(m.attrs_str) /\ ~InsideQuotedValue(s, i)

\* between offsets a and b, every occurrence of '<' + name starts a paired
\* opening tag or a self-closing tag of that name
OnlySelfClosedExtra(s, name, a, b) ==
    \A i \in a..(b - 1) :
        LowerStartsAt(s, <<"<">> \o name, i) => (PairedOpenAt(s, name, i) \/ SelfClosedAt(s, name, i))

\* C26: in test_aml_scenarios.py a self-closing tag of the same name inside
\* a paired tag's content does not change the match: the paired tag is
\* matched to the closing tag at which the depth counter over paired tags
\* returns to 0, and it is unmatched only if that counter never does.
C26_SelfClosedInside ==
    (impl = "scenarios") =>
        \A f \in Frames :
            /\ \A a \in Accepted(f) :
                  LET close == ExactClose(f.content, a.name, a.open_end)
                  IN  OnlySelfClosedExtra(f.content, a.name, a.open_end, IF close = -1 THEN Len(f.content) ELSE close)
                      => /\ a.stop = close + Len(CloseText(a.name))
                         /\ a.inner = Slice(f.content, a.open_end, close)
            /\ \A u \in Unmatched(f) :
                  OnlySelfClosedExtra(f.content, u.name, u.open_end, Len(f.content))
                  => ExactClose(f.content, u.name, u.open_end) = -1

\* C27: a degenerate denominator does not abort rendering: for a progress
\* tag with max="0" and for a chart whose largest data value is 0,
\* render_aml never ends in the ZeroDivisionError of the division.
C27_NoZeroDivision == ~(status = "raised" /\ exc = "ZeroDivisionError")

\* C28: render_aml of test_aml.py terminates on every input.  Every
\* iteration that comes back to the head of the loop (after a self-closing
\* tag, after a matched tag, also one whose container rule called
\* render_aml, and after a tag without closing tag) has moved pos forward,
\* and a recursive call works on a content shorter than its caller's.
C28_AmlTerminates ==
    [][(impl = "aml") =>
          /\ \A k \in 1..Len(stack) :
                (k <= Len(stack') /\ stack'[k] # stack[k] /\ stack'[k].pc = "outer")
                => stack'[k].pos > stack[k].pos
          /\ Len(stack') > Len(stack)
             => Len(stack'[Len(stack')].content) < Len(stack[Len(stack)].content)]_vars

\* test_aml.py has returned after a tag without closing tag and a
\* self-closing tag
C28_Witness ==
    /\ impl = "aml"
    /\ Returned
    /\ stack[1].pos = Len(Input)
    /\ \E i, j \in 1..Len(stack[1].log) :
          /\ stack[1].log[i].kind = "literal"
          /\ stack[1].log[j].kind = "widget"
          /\ stack[1].log[j].stop = stack[1].log[j].open_end
    /\ Len(stack[1].log) = 2

\* the offsets of s at which the tag pattern matches
TagsAt(s) == {i \in 0..(Len(s) - 1) : TagMatchAt(s, i)}
\* the tag at offset i ends in "/>"
SlashedAt(s, i) == EndsWithChar(TagSearch(s, i).attrs_str, "/")
\* the offset after the opening tag at offset i, and of its first closing tag
OpenEnd(s, i) == i + TagSearch(s, i).mlen
FirstClose(s, i) == CaseFind(s, CloseText(TagSearch(s, i).tag_name), OpenEnd(s, i))

\* s is well formed: every self-closing or void tag ends in "/>"; every
\* other tag has a closing tag; its content does not hold '<' + its name;
\* and two paired tags lie one after the other or one inside the other
WellFormed(s) ==
    LET tags == TagsAt(s)
        paired == {i \in tags : ~SlashedAt(s, i)}
    IN  /\ \A i \in tags :
              (SlashLast(TagSearch(s, i).attrs_str) \/ TagSearch(s, i).tag_name \in VoidTags) => SlashedAt(s, i)
        /\ \A i \in paired :
              /\ FirstClose(s, i) # -1
              /\ CaseFind(Slice(s, OpenEnd(s, i), FirstClose(s, i)), <<"<">> \o TagSearch(s, i).tag_name, 0) = -1
        /\ \A i, j \in paired :
              i < j => (j >= FirstClose(s, i) \/ FirstClose(s, j) < FirstClose(s, i))

RECURSIVE ExpectedLog(_, _)
\* what a composer does on well-formed content s from offset pos on, tag by
\* top-level tag: the text runs that are not blank and the dispatched tags
\* (a tag without closing tag, which well-formed content does not hold, is
\* passed over)
ExpectedLog(s, pos) ==
    IF pos >= Len(s) THEN <<>>
    ELSE LET m == TagSearch(s, pos)
             upto == IF m.found THEN m.tag_start ELSE Len(s)
             text == IF strip(Slice(s, pos, upto)) = <<>> THEN <<>>
                     ELSE <<LogEntry("text", pos, pos, upto, <<>>, <<>>, <<>>)>>
         IN  IF ~m.found THEN text
             ELSE LET open_end == m.tag_start + m.mlen
                      close == CaseFind(s, CloseText(m.tag_name), open_end)
                      stop == IF SlashedAt(s, m.tag_start) THEN open_end ELSE close + Len(CloseText(m.tag_name))
                      inner == IF SlashedAt(s, m.tag_start) THEN <<>> ELSE Slice(s, open_end, close)
                  IN  IF ~SlashedAt(s, m.tag_start) /\ close = -1
                      THEN text \o <<LogEntry("literal", m.tag_start, open_end, open_end, <<>>, <<>>, <<>>)>>
                           \o ExpectedLog(s, open_end)
                      ELSE text
                           \o <<LogEntry("widget", m.tag_start, open_end, stop, m.tag_name, parse_attrs(m.attrs_str), inner)>>
                           \o ExpectedLog(s, stop)

\* C29: on well-formed content, at every recursion level, a call of either
\* file's render_aml that has left its loop has dispatched the same tags
\* (name, attribute mapping, inner content) and emitted the same text runs,
\* in the same order: those of the content read tag by tag, whichever file
\* runs; a text run is the paragraph of its trimmed, escaped text.
C29_ComposersAgree ==
    \A f \in Finished :
        \/ /\ f.log = ExpectedLog(f.content, 0)
           /\ \A i \in 1..Len(f.log) :
                 f.log[i].kind = "text"
                 => f.result[i] = TextHtml(EscapedOnce(strip(Slice(f.content, f.log[i].start, f.log[i].stop))))
        \/ ~WellFormed(f.content)

\* in test_aml_scenarios.py the call for the content of a well-formed
\* container has dispatched a tag and left its loop
C29_Witness ==
    /\ impl = "scenarios"
    /\ Len(stack) = 2
    /\ stack[2].pc = "ret"
    /\ \E i \in 1..Len(stack[2].log) : stack[2].log[i].kind = "widget"
    /\ WellFormed(Input)

\* the offsets of s where sub stands, letter case ignored
OccurrencesOf(s, sub) == {i \in 0..(Len(s) - 1) : LowerStartsAt(s, sub, i)}
\* the occurrences that lie wholly inside the first k characters
Within(occ, sub, k) == {i \in occ : i + Len(sub) <= k}
\* inner holds as many '<' + name as '</' + name + '>', and no prefix of it
\* holds more of the latter than of the former
Balanced(inner, name) ==
    LET opens == OccurrencesOf(inner, <<"<">> \o name)
        closes == OccurrencesOf(inner, CloseText(name))
    IN  /\ Cardinality(opens) = Cardinality(closes)
        /\ \A k \in 0..Len(inner) :
              Cardinality(Within(opens, <<"<">> \o name, k)) >= Cardinality(Within(closes, CloseText(name), k))

\* C30: in test_aml_scenarios.py, the content that the span matcher hands to
\* a widget when it accepts a closing tag is balanced in the tag's name: as
\* many occurrences of '<' + name as of '</' + name + '>', letter case
\* ignored, no prefix with more closing than opening occurrences; and while
\* the matcher scans, its depth counter is at least 1.
C30_InnerBalanced ==
    (impl = "scenarios") =>
        \A f \in Frames :
            /\ f.pc = "inner" => f.depth >= 1
            /\ \A a \in Accepted(f) : Balanced(a.inner, a.name)
====
